---- MODULE Spec2Model ----
(***************************************************************************)
(* A model of the stack language interpreter of zggff/rust_stack_lang:     *)
(* the memory allocator (src/program/memory.rs), the lexer (Tokens::next   *)
(* in src/program/mod.rs), the parser (Program::parse) and the evaluator   *)
(* (Program::interpret).                                                   *)
(***************************************************************************)
EXTENDS Integers, Sequences, FiniteSets, TLC

(***************************************************************************)
(* Bounds of the model.                                                    *)
(***************************************************************************)
\* the longest buffer (Vec<u8>) the model lets the allocator grow
MaxMem == 5
\* the longest byte slice handed to extend, and the largest alloc request
MaxLen == 2
\* the longest run of calls explored when alloc is among them
MaxCalls == 4
\* the longest source text handed to the lexer, in characters
MaxSrc == 5
\* the most events of a run the evaluator is followed for
MaxSteps == 12
\* the most numbers a program of operations pushes before its operation
MaxPushes == 3
\* the most pieces in the body of a program of loops
MaxPieces == 3
\* the most pieces in a program of let blocks
MaxLets == 4
\* the most words that follow `1 2` in a program of names
MaxWords == 4

\* usize::MAX, for a machine word scaled down to 4 bits
MAX == 15
\* 2^w for that word: unchecked usize arithmetic is modulo Modulus
Modulus == MAX + 1
\* 2^32 for that word: a u32 has 3 of its bits
U32Modulus == 8
\* 2^8 for that word: a u8 has 2 of its bits
U8Modulus == 4

\* the byte values a caller writes: the zero byte and a non-zero byte
Bytes == {0, 1}
Addresses == 0..MaxMem
Lengths == 0..MaxLen
\* Option<&u8>::None, the result of get past the end of the buffer
None == -1

VARIABLES
    memory,     \* Memory.memory: the byte buffer, memory[i + 1] is address i
    free,       \* Memory.free: the free extents <<address, remaining>>
    ret,        \* what the last call returned (an address, a byte, None)
    last,       \* the name of the last call made on the Memory
    live,       \* addresses handed out by push/extend/alloc and not removed
    reserved,   \* addresses handed out by alloc and not removed since
    calls,      \* the number of calls made on the Memory, up to MaxCalls
    panicked,   \* the run was aborted by a panic
    src,        \* the source text handed to Tokens::new
    code,       \* Tokens.code: the characters the lexer has not read yet
    tokens,     \* the tokens next() has returned so far, in order
    eof,        \* next() has returned None
    source,     \* the words of the source text handed to Program::parse
    phase,      \* "source", "parsed" or "rejected", "done", then "replayed"
    program,    \* Program.functions: the body of every function parsed
    run,        \* the run of main, once interpret has returned or panicked
    replay      \* the program and the run of a second parse and interpret

mem_vars == <<memory, free, ret, last, live, reserved, calls, panicked>>

lex_vars == <<src, code, tokens, eof>>

run_vars == <<source, phase, program, run, replay>>

vars == <<memory, free, ret, last, live, reserved, calls, panicked,
          src, code, tokens, eof, source, phase, program, run, replay>>

(***************************************************************************)
(* Helpers: Vec operations.                                                *)
(***************************************************************************)
Max(a, b) == IF a >= b THEN a ELSE b

\* Vec::resize(new_len, 0) for new_len >= len: the buffer is only grown
resize(vec, new_len) ==
    vec \o [i \in 1..(new_len - Len(vec)) |-> 0]

\* the buffer with data written at address (the buffer is long enough)
write(vec, address, data) ==
    [i \in 1..Len(vec) |->
        IF i > address /\ i <= address + Len(data) THEN data[i - address] ELSE vec[i]]

\* Vec::remove(index), index counted from 0
vec_remove(vec, index) ==
    SubSeq(vec, 1, index) \o SubSeq(vec, index + 2, Len(vec))

\* Iterator::position: the 0-based index of the first extent with room for
\* len bytes, None when there is none
position(extents, len) ==
    IF \E i \in 1..Len(extents) : extents[i][2] >= len
    THEN (CHOOSE i \in 1..Len(extents) :
             /\ extents[i][2] >= len
             /\ \A j \in 1..(i - 1) : extents[j][2] < len) - 1
    ELSE None

\* the order of (usize, usize) tuples: lexicographic
tuple_less(a, b) == a[1] < b[1] \/ (a[1] = b[1] /\ a[2] < b[2])

RECURSIVE sort_insert(_, _)
sort_insert(sorted, e) ==
    IF sorted = <<>> THEN <<e>>
    ELSE IF tuple_less(e, Head(sorted)) THEN <<e>> \o sorted
    ELSE <<Head(sorted)>> \o sort_insert(Tail(sorted), e)

\* slice::sort_unstable on the free list
RECURSIVE sort_unstable(_)
sort_unstable(extents) ==
    IF extents = <<>> THEN <<>>
    ELSE sort_insert(sort_unstable(Tail(extents)), Head(extents))

(***************************************************************************)
(* Memory.  Every operation is an operator on a Memory value               *)
(* [memory, free] and yields the Memory after the call, the value          *)
(* returned, whether the call panicked, and whether unsigned arithmetic    *)
(* overflowed in it (a panic in a build with overflow checks, a wrap       *)
(* modulo 2^w in a build without).                                         *)
(***************************************************************************)
Result(mem, fr, value, panic, overflow) ==
    [memory |-> mem, free |-> fr, ret |-> value, panic |-> panic, overflow |-> overflow]

Panic(self) == Result(self.memory, self.free, None, TRUE, FALSE)

\* Memory::new
new == [memory |-> <<>>, free |-> << <<0, MAX>> >>]

\* Memory::push
push(self, value) ==
    IF self.free = <<>> THEN Panic(self)
    ELSE
        LET address == self.free[1][1]
            remaining == self.free[1][2]
            mem == write(resize(self.memory, Max(Len(self.memory), address + 1)),
                         address, <<value>>)
            shrunk == <<address + 1, (remaining - 1) % Modulus>>
            fr == IF shrunk[2] = 0 THEN Tail(self.free)
                  ELSE [self.free EXCEPT ![1] = shrunk]
        IN  Result(mem, fr, address, FALSE, remaining = 0)

\* extend that writes the data but leaves the extent's start where it was
extend_no_advance(self, data) ==
    LET index == position(self.free, Len(data))
        address == self.free[index + 1][1]
        remaining == self.free[index + 1][2]
    IN  Result(write(resize(self.memory, Max(Len(self.memory), address + Len(data))),
                     address, data),
               [self.free EXCEPT ![index + 1] = <<address, remaining - Len(data)>>],
               address, FALSE, FALSE)

\* Memory::extend
extend(self, data) ==
    LET index == position(self.free, Len(data))
    IN  IF index = None THEN Panic(self)
        ELSE
            LET address == self.free[index + 1][1]
                remaining == self.free[index + 1][2]
                mem == write(resize(self.memory,
                                    Max(Len(self.memory), address + Len(data))),
                             address, data)
                shrunk == <<address + Len(data), remaining - Len(data)>>
                fr == [self.free EXCEPT ![index + 1] = shrunk]
            IN  Result(mem,
                       IF shrunk[2] = 0 THEN vec_remove(fr, 0) ELSE fr,
                       address, FALSE, FALSE)

\* Memory::alloc
alloc(self, len) ==
    LET index == position(self.free, len)
    IN  IF index = None THEN Panic(self)
        ELSE
            LET address == self.free[index + 1][1]
                remaining == self.free[index + 1][2]
                mem == resize(self.memory, Max(Len(self.memory), address + len))
                shrunk == <<address, remaining - len>>
                fr == [self.free EXCEPT ![index + 1] = shrunk]
            IN  Result(mem,
                       IF shrunk[2] = 0 THEN vec_remove(fr, 0) ELSE fr,
                       address, FALSE, FALSE)

\* get that reads a zero byte past the end of the buffer
get_zero_filled(self, index) ==
    Result(self.memory, self.free,
           IF index < Len(self.memory) THEN self.memory[index + 1] ELSE 0,
           FALSE, FALSE)

\* Memory::get
get(self, index) ==
    Result(self.memory, self.free,
           IF index < Len(self.memory) THEN self.memory[index + 1] ELSE None,
           FALSE, FALSE)

\* Memory::set
set(self, index, value) ==
    IF index >= Len(self.memory) THEN Panic(self)
    ELSE Result([self.memory EXCEPT ![index + 1] = value], self.free, None, FALSE, FALSE)

\* the merging loop of Memory::remove over a sorted free list: new_free is
\* the list built so far, rest the extents still to visit
RECURSIVE coalesce(_, _, _)
coalesce(new_free, rest, overflow) ==
    IF rest = <<>> THEN [free |-> new_free, overflow |-> overflow]
    ELSE
        LET n == Len(new_free)
            last_address == new_free[n][1]
            last_remaining == new_free[n][2]
            address == Head(rest)[1]
            remaining == Head(rest)[2]
            end == last_address + last_remaining
        IN  IF address = end % Modulus
            THEN coalesce([new_free EXCEPT ![n] =
                              <<last_address, (last_remaining + remaining) % Modulus>>],
                          Tail(rest),
                          overflow \/ end > MAX \/ last_remaining + remaining > MAX)
            ELSE coalesce(Append(new_free, Head(rest)), Tail(rest),
                          overflow \/ end > MAX)

\* remove that returns the range to the free list without zeroing it
remove_no_zeroing(self, address, len) ==
    LET sorted == sort_unstable(Append(self.free, <<address, len>>))
        merged == coalesce(<<Head(sorted)>>, Tail(sorted), FALSE)
    IN  Result(self.memory, merged.free, None, FALSE, merged.overflow)

\* Memory::remove
remove(self, address, len) ==
    IF len > 0 /\ address + len > Len(self.memory) THEN Panic(self)
    ELSE
        LET mem == write(self.memory, address, [i \in 1..len |-> 0])
            sorted == sort_unstable(Append(self.free, <<address, len>>))
            merged == coalesce(<<Head(sorted)>>, Tail(sorted), FALSE)
        IN  Result(mem, merged.free, None, FALSE, merged.overflow)

(***************************************************************************)
(* The allocator driven by a caller: one action per call.                  *)
(***************************************************************************)
self == [memory |-> memory, free |-> free]

range(address, len) == address..(address + len - 1)

Abort ==
    /\ panicked' = TRUE
    /\ UNCHANGED <<memory, free, ret, last, live, reserved, calls>>
    /\ UNCHANGED lex_vars
    /\ UNCHANGED run_vars

\* the state after a call that yielded r
Apply(r, name, live1, reserved1) ==
    /\ memory' = r.memory
    /\ free' = r.free
    /\ ret' = r.ret
    /\ last' = name
    /\ live' = live1
    /\ reserved' = reserved1
    /\ calls' = IF calls < MaxCalls THEN calls + 1 ELSE calls
    /\ UNCHANGED panicked
    /\ UNCHANGED lex_vars
    /\ UNCHANGED run_vars

Call(r, name, live1, reserved1) ==
    /\ ~panicked
    /\ Len(r.memory) <= MaxMem
    /\ IF r.panic THEN Abort
       ELSE IF r.overflow
            THEN \/ Abort
                 \/ Apply(r, name, live1, reserved1)
            ELSE Apply(r, name, live1, reserved1)

Push(value) ==
    LET r == push(self, value)
    IN  Call(r, "push", live \cup range(r.ret, 1), reserved)

Extend(data) ==
    LET r == extend(self, data)
    IN  Call(r, "extend", live \cup range(r.ret, Len(data)), reserved)

Alloc(len) ==
    LET r == alloc(self, len)
    IN  Call(r, "alloc", live \cup range(r.ret, len),
             reserved \cup range(r.ret, len))

Get(index) ==
    Call(get(self, index), "get", live, reserved)

\* MemoryOperation::LoadByte: memory.get(address).unwrap(), the byte loaded
\* is what the evaluator pushes
LoadByte(address) ==
    LET r == get(self, address)
    IN  Call(IF r.ret = None THEN Panic(self) ELSE r, "load", live, reserved)

Set(index, value) ==
    Call(set(self, index, value), "set", live, reserved)

\* the caller frees only what it holds: a non-empty range of live bytes
Remove(address, len) ==
    /\ len > 0
    /\ range(address, len) \subseteq live
    /\ Call(remove(self, address, len), "remove",
            live \ range(address, len), reserved \ range(address, len))

\* byte slices of one repeated value, as in test_memory
Slices == {[i \in 1..n |-> v] : n \in Lengths, v \in Bytes}

\* a new Memory that no call was made on yet
NewMemory ==
    /\ memory = new.memory
    /\ free = new.free
    /\ ret = None
    /\ last = "new"
    /\ live = {}
    /\ reserved = {}
    /\ calls = 0
    /\ panicked = FALSE

\* a lexer over the empty source text
NoSource ==
    /\ src = <<>>
    /\ code = <<>>
    /\ tokens = <<>>
    /\ eof = FALSE

\* no program handed to the parser
NoProgram ==
    /\ source = <<>>
    /\ phase = "idle"
    /\ program = <<>>
    /\ run = <<>>
    /\ replay = <<>>

MemInit == NewMemory /\ NoSource /\ NoProgram

\* every call of the interface, in runs of at most MaxCalls calls
Capped == calls < MaxCalls

MemNext ==
    \/ \E value \in Bytes : Capped /\ Push(value)
    \/ \E data \in Slices : Capped /\ Extend(data)
    \/ \E len \in Lengths : Capped /\ Alloc(len)
    \/ \E index \in Addresses : Capped /\ Get(index)
    \/ \E address \in Addresses : Capped /\ LoadByte(address)
    \/ \E index \in Addresses, value \in Bytes : Capped /\ Set(index, value)
    \/ \E address \in Addresses, len \in 1..MaxMem : Capped /\ Remove(address, len)

MemSpec == MemInit /\ [][MemNext]_vars

\* push, extend and remove only, runs of any length
FreeNext ==
    \/ \E value \in Bytes : Push(value)
    \/ \E data \in Slices : Extend(data)
    \/ \E address \in Addresses, len \in 1..MaxMem : Remove(address, len)

FreeSpec == MemInit /\ [][FreeNext]_vars

\* push and extend only, runs of any length
AppendNext ==
    \/ \E value \in Bytes : Push(value)
    \/ \E data \in Slices : Extend(data)

AppendSpec == MemInit /\ [][AppendNext]_vars

(***************************************************************************)
(* The lexer.  A text is a sequence of characters, a token the sequence of *)
(* its characters.                                                         *)
(***************************************************************************)
\* the characters of the source texts: a letter, the slash, the quote and
\* the three separators
Chars == {"a", "/", "\"", " ", "\n", "\t"}

separators == {" ", "\n", "\t"}

\* Option<String>: Some(token) with what is left of the iterator, or None
Some(token, rest) == [some |-> TRUE, token |-> token, code |-> rest]

NoToken == [some |-> FALSE, token |-> <<>>, code |-> <<>>]

\* String::pop: drops the last character, if there is one
pop(string) ==
    IF string = <<>> THEN <<>> ELSE SubSeq(string, 1, Len(string) - 1)

\* the inner loop of Tokens::next over a string literal: accumulates up to
\* and including the closing quote
RECURSIVE string_literal(_, _)
string_literal(chars, accumulator) ==
    IF chars = <<>> THEN NoToken
    ELSE IF Head(chars) = "\""
         THEN Some(Append(accumulator, Head(chars)), Tail(chars))
         ELSE string_literal(Tail(chars), Append(accumulator, Head(chars)))

\* a lexer that emits what it has accumulated when the text ends
RECURSIVE next_loop_flush(_, _, _, _)
next_loop_flush(chars, accumulator, last_char, is_comment) ==
    IF chars = <<>>
    THEN IF ~is_comment /\ accumulator # <<>>
         THEN Some(accumulator, <<>>)
         ELSE NoToken
    ELSE
        LET char == Head(chars)
            rest == Tail(chars)
        IN  IF char = "\n" /\ is_comment
            THEN next_loop_flush(rest, accumulator, last_char, FALSE)
            ELSE IF char = "/" /\ last_char = "/"
            THEN next_loop_flush(rest, pop(accumulator), last_char, TRUE)
            ELSE IF char = "\"" /\ ~is_comment
            THEN string_literal(rest, Append(accumulator, "\""))
            ELSE IF char \in separators
            THEN IF ~is_comment /\ accumulator # <<>>
                 THEN Some(accumulator, rest)
                 ELSE next_loop_flush(rest, accumulator, last_char, is_comment)
            ELSE IF ~is_comment
            THEN next_loop_flush(rest, Append(accumulator, char), char, is_comment)
            ELSE next_loop_flush(rest, accumulator, last_char, is_comment)

\* the while loop of Tokens::next, with its three locals
RECURSIVE next_loop(_, _, _, _)
next_loop(chars, accumulator, last_char, is_comment) ==
    IF chars = <<>> THEN NoToken
    ELSE
        LET char == Head(chars)
            rest == Tail(chars)
        IN  IF char = "\n" /\ is_comment
            THEN next_loop(rest, accumulator, last_char, FALSE)
            ELSE IF char = "/" /\ last_char = "/"
            THEN next_loop(rest, pop(accumulator), last_char, TRUE)
            ELSE IF char = "\"" /\ ~is_comment
            THEN string_literal(rest, Append(accumulator, "\""))
            ELSE IF char \in separators
            THEN IF ~is_comment /\ accumulator # <<>>
                 THEN Some(accumulator, rest)
                 ELSE next_loop(rest, accumulator, last_char, is_comment)
            ELSE IF ~is_comment
            THEN next_loop(rest, Append(accumulator, char), char, is_comment)
            ELSE next_loop(rest, accumulator, last_char, is_comment)

\* Tokens::next
next(chars) == next_loop(chars, <<>>, " ", FALSE)

\* the whole token sequence of a text: next() called until it returns None
RECURSIVE collect(_)
collect(chars) ==
    LET r == next(chars)
    IN  IF r.some THEN <<r.token>> \o collect(r.code) ELSE <<>>

\* the caller takes the next token from the iterator
NextToken ==
    /\ ~eof
    /\ LET r == next(code)
       IN  /\ code' = r.code
           /\ tokens' = IF r.some THEN Append(tokens, r.token) ELSE tokens
           /\ eof' = ~r.some
    /\ UNCHANGED src
    /\ UNCHANGED mem_vars
    /\ UNCHANGED run_vars

\* the source texts of at most MaxSrc characters
Sources == UNION {[1..n -> Chars] : n \in 0..MaxSrc}

\* Tokens::new
LexInit ==
    /\ NewMemory
    /\ NoProgram
    /\ src \in Sources
    /\ code = src
    /\ tokens = <<>>
    /\ eof = FALSE

LexNext == NextToken

LexSpec == LexInit /\ [][LexNext]_vars

(***************************************************************************)
(* The syntax tree (src/token.rs) and the parser (Program::parse).         *)
(***************************************************************************)
\* the variants of enum Token
Token_Push(value) == [op |-> "Push", value |-> value]
Token_Math(operand) == [op |-> "Math", operand |-> operand]
Token_Cmp(operand) == [op |-> "Cmp", operand |-> operand]
Token_Stack(operand) == [op |-> "Stack", operand |-> operand]
Token_Memory(operand) == [op |-> "Memory", operand |-> operand]
Token_PushBytes(data) == [op |-> "Memory", operand |-> "PushBytes", data |-> data]
Token_FunctionCall(function) == [op |-> "FunctionCall", function |-> function]
Token_IfBlock(true_block, false_block) ==
    [op |-> "IfBlock", true_block |-> true_block, false_block |-> false_block]
Token_LoopBlock(segment) == [op |-> "LoopBlock", segment |-> segment]
Token_WhileBlock(condition, segment) ==
    [op |-> "WhileBlock", condition |-> condition, segment |-> segment]
Token_Continue == [op |-> "Continue"]
Token_Break == [op |-> "Break"]
Token_LetBlock(segment, let_bindings) ==
    [op |-> "LetBlock", segment |-> segment, let_bindings |-> let_bindings]
Token_Let(let_binding) == [op |-> "Let", let_binding |-> let_binding]
Token_Putc == [op |-> "Putc"]
Token_Putu == [op |-> "Putu"]
Token_Debug == [op |-> "Debug"]

\* the words of the match in parse_code_segment that stand for one node
simple_words ==
    [w \in {"+", "-", "*", "<", ">", "=", "dup", "swap", "over", "rot", "drop",
            "break", "continue", "putc", "putu", "???", "<-", "->", "alloc",
            "free"} |->
        CASE w = "+" -> Token_Math("Add")
          [] w = "-" -> Token_Math("Sub")
          [] w = "*" -> Token_Math("Mul")
          [] w = "<" -> Token_Cmp("Less")
          [] w = ">" -> Token_Cmp("Greater")
          [] w = "=" -> Token_Cmp("Equal")
          [] w = "dup" -> Token_Stack("Dup")
          [] w = "swap" -> Token_Stack("Swap")
          [] w = "over" -> Token_Stack("Over")
          [] w = "rot" -> Token_Stack("Rot")
          [] w = "drop" -> Token_Stack("Drop")
          [] w = "break" -> Token_Break
          [] w = "continue" -> Token_Continue
          [] w = "putc" -> Token_Putc
          [] w = "putu" -> Token_Putu
          [] w = "???" -> Token_Debug
          [] w = "<-" -> Token_Memory("LoadByte")
          [] w = "->" -> Token_Memory("StoreByte")
          [] w = "alloc" -> Token_Memory("Alloc")
          [] w = "free" -> Token_Memory("Free")]

\* str::parse::<usize> over the numerals of the source texts: the value, or
\* None for a word that is no numeral of a machine word
numerals ==
    ("0" :> 0) @@ ("1" :> 1) @@ ("2" :> 2) @@ ("3" :> 3) @@ ("5" :> 5) @@
    ("6" :> 6) @@ ("10" :> 10) @@ ("13" :> 13) @@ ("15" :> 15)

parse_usize(token) ==
    IF token \in DOMAIN numerals THEN numerals[token] ELSE None

\* the bytes between the quotes of the string literals of the source texts;
\* the letter a has the code 1 in the character set of the scaled machine
literals == ("\"a\"" :> <<1>>) @@ ("\"\"" :> <<>>)

\* the result of a parsing function: the nodes built, the words left in
\* the iterator, and whether the parser panicked
Parsed(nodes, rest) == [tokens |-> nodes, code |-> rest, panic |-> FALSE]

ParsePanic == [tokens |-> <<>>, code |-> <<>>, panic |-> TRUE]

\* the while loop of the let arm: collects names up to the opening brace
RECURSIVE let_names(_, _)
let_names(words, let_bindings) ==
    IF words = <<>> THEN [found |-> FALSE, let_bindings |-> let_bindings, code |-> <<>>]
    ELSE IF Head(words) = "{"
         THEN [found |-> TRUE, let_bindings |-> let_bindings, code |-> Tail(words)]
         ELSE let_names(Tail(words), Append(let_bindings, Head(words)))

\* the elements of a Vec<String>
elements(vec) == {vec[i] : i \in 1..Len(vec)}

\* a scope check that takes the name a for declared everywhere
contains_or_a(vec, name) == name = "a" \/ name \in elements(vec)

\* Vec::contains
contains(vec, name) == name \in elements(vec)

\* what the default arm of the match makes of a token that no other arm
\* matched, when it makes no node of it and panics
Unknown == [op |-> "Unknown"]

\* the default arm of the match in parse_code_segment: a number, then a
\* string literal, then a function of the map, then a let name
resolve(token, functions, lets) ==
    IF parse_usize(token) # None THEN Token_Push(parse_usize(token))
    ELSE IF token \in DOMAIN literals
    THEN Token_PushBytes(Append(literals[token], 0))
    ELSE IF token \in DOMAIN functions THEN Token_FunctionCall(token)
    ELSE IF contains(lets, token) THEN Token_Let(token)
    ELSE Unknown

\* a block parser for which the end of the input inside a block is an error
end_of_input_is_fatal(nodes) == ParsePanic

\* the end of the while loop of parse_code_segment when code.next() is None:
\* the tokens pushed so far are returned
end_of_input(nodes) == Parsed(nodes, <<>>)

\* Program::parse_code_segment, nodes being the tokens pushed so far
RECURSIVE parse_code_segment(_, _, _, _)
parse_code_segment(words, functions, lets, nodes) ==
    IF words = <<>> THEN end_of_input(nodes)
    ELSE
        LET token == Head(words)
            rest == Tail(words)
        IN  IF token \in DOMAIN simple_words
            THEN parse_code_segment(rest, functions, lets,
                                    Append(nodes, simple_words[token]))
            ELSE IF token = "}" THEN Parsed(nodes, rest)
            ELSE IF token = "loop"
            THEN IF rest = <<>> \/ Head(rest) # "{" THEN ParsePanic
                 ELSE LET body == parse_code_segment(Tail(rest), functions, lets, <<>>)
                      IN  IF body.panic THEN ParsePanic
                          ELSE parse_code_segment(body.code, functions, lets,
                                   Append(nodes, Token_LoopBlock(body.tokens)))
            ELSE IF token = "if"
            THEN IF rest = <<>> \/ Head(rest) # "{" THEN ParsePanic
                 ELSE LET true_block == parse_code_segment(Tail(rest), functions, lets, <<>>)
                          after == true_block.code
                      IN  IF true_block.panic THEN ParsePanic
                          ELSE IF after # <<>> /\ Head(after) = "else"
                          THEN IF Tail(after) = <<>> \/ Head(Tail(after)) # "{"
                               THEN ParsePanic
                               ELSE LET false_block ==
                                            parse_code_segment(Tail(Tail(after)),
                                                               functions, lets, <<>>)
                                    IN  IF false_block.panic THEN ParsePanic
                                        ELSE parse_code_segment(false_block.code,
                                                 functions, lets,
                                                 Append(nodes,
                                                        Token_IfBlock(true_block.tokens,
                                                                      false_block.tokens)))
                          ELSE parse_code_segment(after, functions, lets,
                                   Append(nodes, Token_IfBlock(true_block.tokens, <<>>)))
            ELSE IF token = "let"
            THEN LET names == let_names(rest, <<>>)
                     new_lets == lets \o names.let_bindings
                     body == parse_code_segment(names.code, functions, new_lets, <<>>)
                 IN  IF ~names.found THEN Parsed(nodes, <<>>)
                     ELSE IF body.panic THEN ParsePanic
                     ELSE parse_code_segment(body.code, functions, lets,
                              Append(nodes, Token_LetBlock(body.tokens,
                                                           names.let_bindings)))
            ELSE IF token = "while"
            THEN IF rest = <<>> THEN Parsed(nodes, <<>>)
                 ELSE IF Head(rest) # "{"
                 THEN parse_code_segment(Tail(rest), functions, lets, nodes)
                 ELSE LET condition == parse_code_segment(Tail(rest), functions, lets, <<>>)
                          after == condition.code
                      IN  IF condition.panic THEN ParsePanic
                          ELSE IF after = <<>> THEN Parsed(nodes, <<>>)
                          ELSE IF Head(after) # "{"
                          THEN parse_code_segment(Tail(after), functions, lets, nodes)
                          ELSE LET loop_body ==
                                       parse_code_segment(Tail(after), functions, lets, <<>>)
                               IN  IF loop_body.panic THEN ParsePanic
                                   ELSE parse_code_segment(loop_body.code, functions, lets,
                                            Append(nodes,
                                                   Token_WhileBlock(condition.tokens,
                                                                    loop_body.tokens)))
            ELSE IF resolve(token, functions, lets) = Unknown THEN ParsePanic
            ELSE parse_code_segment(rest, functions, lets,
                                    Append(nodes, resolve(token, functions, lets)))

\* HashMap::insert
insert(map, key, value) ==
    [k \in DOMAIN map \cup {key} |-> IF k = key THEN value ELSE map[k]]

\* HashMap::new
empty_map == [k \in {} |-> 0]

\* the while loop of Program::parse: the function map, or a panic
RECURSIVE parse_loop(_, _)
parse_loop(words, functions) ==
    IF words = <<>> THEN [functions |-> functions, panic |-> FALSE]
    ELSE IF Head(words) # "fn" \/ Len(words) < 3 \/ words[3] # "{"
    THEN [functions |-> empty_map, panic |-> TRUE]
    ELSE LET function_name == words[2]
             function == parse_code_segment(SubSeq(words, 4, Len(words)),
                                            functions, <<>>, <<>>)
         IN  IF function.panic THEN [functions |-> empty_map, panic |-> TRUE]
             ELSE parse_loop(function.code,
                             insert(functions, function_name, function.tokens))

\* Program::parse
parse(words) == parse_loop(words, empty_map)

(***************************************************************************)
(* The evaluator (Program::interpret).  A run is a value                   *)
(*   [stack, memory, status, io, log, panic, cut, checked, returned]:      *)
(* the operand stack (top last), the Memory, the InterpretationStatus,     *)
(* the bytes written to the sink, the events of the run so far, the panic  *)
(* that aborted it ("" for none), whether the run was cut off after        *)
(* MaxSteps events, whether the build checks unsigned overflow, and        *)
(* whether the segment being run has executed `return`.                    *)
(***************************************************************************)
halted(m) == m.panic # "" \/ m.cut

\* the run aborted by a panic
panic_with(m, message) ==
    IF halted(m) THEN m ELSE [m EXCEPT !.panic = message]

\* what the log calls a node: its operand where it has one, else its variant
label(token) ==
    IF token.op \in {"Math", "Cmp", "Stack", "Memory"} THEN token.operand
    ELSE token.op

\* an event of the run: ev is "exec" (a node starts), "pass" (a loop starts
\* its body), "condition" (a while loop starts its condition), "test" (it
\* is about to pop the word the condition left), "catch" (a loop consumes
\* the status), "scope" (a let block has bound its names) or "exit" (a
\* block node is finished); node is the node the event is about, op its
\* label, depth counts the calls of interpret_segment the event happened
\* under, owner is the kind of node whose segment an executed node is in
\* (for the other events, the block itself), and stack, status, variables,
\* memory and io are what they were when the event happened
note(m, ev, token, variables, depth, owner) ==
    IF halted(m) THEN m
    ELSE IF Len(m.log) >= MaxSteps THEN [m EXCEPT !.cut = TRUE]
    ELSE [m EXCEPT !.log = Append(@, [ev |-> ev, op |-> label(token),
                                      node |-> token, depth |-> depth,
                                      owner |-> owner, stack |-> m.stack,
                                      status |-> m.status,
                                      variables |-> variables,
                                      memory |-> m.memory, io |-> m.io])]

\* Vec::push on the operand stack
stack_push(m, value) ==
    IF halted(m) THEN m ELSE [m EXCEPT !.stack = Append(@, value)]

\* the stack without its n top words
without(stack, n) == SubSeq(stack, 1, Len(stack) - n)

\* the n-th word from the top of the stack, the top being the first
nth(stack, n) == stack[Len(stack) - n + 1]

\* the result of native usize arithmetic: a panic in a build that checks
\* overflow, the value modulo 2^w in one that does not
arithmetic(m, exact) ==
    IF exact \in 0..MAX THEN stack_push(m, exact)
    ELSE IF m.checked THEN panic_with(m, "overflow")
    ELSE stack_push(m, exact % Modulus)

\* arithmetic that takes the first-popped word for the left operand
math_top_word_left(operand, m) ==
    IF halted(m) THEN m
    ELSE IF Len(m.stack) < 2 THEN panic_with(m, "underflow")
    ELSE LET b == nth(m.stack, 1)
             a == nth(m.stack, 2)
             popped == [m EXCEPT !.stack = without(@, 2)]
         IN  CASE operand = "Add" -> arithmetic(popped, b + a)
               [] operand = "Sub" -> arithmetic(popped, b - a)
               [] operand = "Mul" -> arithmetic(popped, b * a)

\* Token::Math
math(operand, m) ==
    IF halted(m) THEN m
    ELSE IF Len(m.stack) < 2 THEN panic_with(m, "underflow")
    ELSE LET b == nth(m.stack, 1)
             a == nth(m.stack, 2)
             popped == [m EXCEPT !.stack = without(@, 2)]
         IN  CASE operand = "Add" -> arithmetic(popped, a + b)
               [] operand = "Sub" -> arithmetic(popped, a - b)
               [] operand = "Mul" -> arithmetic(popped, a * b)

\* Token::Cmp
cmp(operand, m) ==
    IF halted(m) THEN m
    ELSE IF Len(m.stack) < 2 THEN panic_with(m, "underflow")
    ELSE LET b == nth(m.stack, 1)
             a == nth(m.stack, 2)
             result == CASE operand = "Less" -> a < b
                         [] operand = "Greater" -> a > b
                         [] operand = "Equal" -> a = b
         IN  [m EXCEPT !.stack = Append(without(@, 2), IF result THEN 1 ELSE 0)]

\* stack operations whose Rot brings the top word under the other two
stack_operation_rot_down(operand, m) ==
    IF halted(m) THEN m
    ELSE LET n == Len(m.stack)
         IN  CASE operand = "Dup" ->
                    IF n < 1 THEN panic_with(m, "underflow")
                    ELSE stack_push(m, nth(m.stack, 1))
               [] operand = "Swap" ->
                    IF n < 2 THEN panic_with(m, "underflow")
                    ELSE [m EXCEPT !.stack = without(@, 2)
                                       \o <<nth(m.stack, 1), nth(m.stack, 2)>>]
               [] operand = "Over" ->
                    IF n < 2 THEN panic_with(m, "underflow")
                    ELSE stack_push(m, nth(m.stack, 2))
               [] operand = "Rot" ->
                    IF n < 3 THEN panic_with(m, "underflow")
                    ELSE [m EXCEPT !.stack = without(@, 3)
                                       \o <<nth(m.stack, 1), nth(m.stack, 3),
                                            nth(m.stack, 2)>>]
               [] operand = "Drop" ->
                    IF n < 1 THEN m
                    ELSE [m EXCEPT !.stack = without(@, 1)]

\* Token::Stack.  Over indexes the stack at len - 2: with fewer than two
\* words the subtraction panics in a build that checks overflow and wraps to
\* an index past the end, where get(..).unwrap() panics, in one that does not
stack_operation(operand, m) ==
    IF halted(m) THEN m
    ELSE LET n == Len(m.stack)
         IN  CASE operand = "Dup" ->
                    IF n < 1 THEN panic_with(m, "underflow")
                    ELSE stack_push(m, nth(m.stack, 1))
               [] operand = "Swap" ->
                    IF n < 2 THEN panic_with(m, "underflow")
                    ELSE [m EXCEPT !.stack = without(@, 2)
                                       \o <<nth(m.stack, 1), nth(m.stack, 2)>>]
               [] operand = "Over" ->
                    IF n < 2 THEN panic_with(m, "underflow")
                    ELSE stack_push(m, nth(m.stack, 2))
               [] operand = "Rot" ->
                    IF n < 3 THEN panic_with(m, "underflow")
                    ELSE [m EXCEPT !.stack = without(@, 3)
                                       \o <<nth(m.stack, 2), nth(m.stack, 1),
                                            nth(m.stack, 3)>>]
               [] operand = "Drop" ->
                    IF n < 1 THEN m
                    ELSE [m EXCEPT !.stack = without(@, 1)]

\* the run after a call on the Memory that yielded r: the stack is what the
\* node left of it, and the address or byte returned is pushed when the node
\* pushes one
memory_call(m, r, stack, pushes) ==
    IF r.panic THEN panic_with(m, "memory")
    ELSE IF r.overflow /\ m.checked THEN panic_with(m, "overflow")
    ELSE [m EXCEPT !.memory = [memory |-> r.memory, free |-> r.free],
                   !.stack = IF pushes THEN Append(stack, r.ret) ELSE stack]

\* a narrowing that keeps the whole word
as_u8_whole_word(value) == value

\* u8 from usize (`as u8`): the low bits of the word that a u8 has
as_u8(value) == value % U8Modulus

\* Token::Memory
memory_operation(token, m) ==
    IF halted(m) THEN m
    ELSE LET n == Len(m.stack)
             operand == token.operand
         IN  CASE operand = "PushBytes" ->
                    memory_call(m, extend(m.memory, token.data), m.stack, TRUE)
               [] operand = "LoadByte" ->
                    IF n < 1 THEN panic_with(m, "underflow")
                    ELSE LET r == get(m.memory, nth(m.stack, 1))
                         IN  IF r.ret = None THEN panic_with(m, "memory")
                             ELSE memory_call(m, r, without(m.stack, 1), TRUE)
               [] operand = "StoreByte" ->
                    IF n < 2 THEN panic_with(m, "underflow")
                    ELSE memory_call(m, set(m.memory, nth(m.stack, 2),
                                            as_u8(nth(m.stack, 1))),
                                     without(m.stack, 2), FALSE)
               [] operand = "Free" ->
                    IF n < 2 THEN panic_with(m, "underflow")
                    ELSE memory_call(m, remove(m.memory, nth(m.stack, 2),
                                               nth(m.stack, 1)),
                                     without(m.stack, 2), FALSE)
               [] operand = "Alloc" ->
                    IF n < 1 THEN panic_with(m, "underflow")
                    ELSE memory_call(m, alloc(m.memory, nth(m.stack, 1)),
                                     without(m.stack, 1), TRUE)

\* u32 from usize (`as u32`): the low bits of the word that a u32 has
as_u32(value) == value % U32Modulus

\* char::from_u32: a char for every Unicode scalar value, None for a
\* surrogate and for a value above char::MAX
from_u32(value) ==
    IF value \in 55296..57343 \/ value > 1114111 THEN None ELSE value

\* the UTF-8 encoding of a char
utf8(char) ==
    IF char < 128 THEN <<char>>
    ELSE IF char < 2048 THEN <<192 + (char \div 64), 128 + (char % 64)>>
    ELSE IF char < 65536
    THEN <<224 + (char \div 4096), 128 + ((char \div 64) % 64), 128 + (char % 64)>>
    ELSE <<240 + (char \div 262144), 128 + ((char \div 4096) % 64),
           128 + ((char \div 64) % 64), 128 + (char % 64)>>

\* Display for usize: the ASCII decimal digits, most significant first
RECURSIVE decimal(_)
decimal(value) ==
    IF value < 10 THEN <<48 + value>>
    ELSE Append(decimal(value \div 10), 48 + (value % 10))

\* Token::Putc
putc(m) ==
    IF halted(m) THEN m
    ELSE IF Len(m.stack) < 1 THEN panic_with(m, "underflow")
    ELSE LET char == from_u32(as_u32(nth(m.stack, 1)))
         IN  IF char = None THEN panic_with(m, "char")
             ELSE [m EXCEPT !.stack = without(@, 1), !.io = @ \o utf8(char)]

\* Token::Putu
putu(m) ==
    IF halted(m) THEN m
    ELSE IF Len(m.stack) < 1 THEN panic_with(m, "underflow")
    ELSE [m EXCEPT !.stack = without(@, 1), !.io = @ \o decimal(nth(m.stack, 1))]

\* Token::Debug: the Debug text of the stack and the Memory, kept as one
\* element of the output, and a newline
debug(m) ==
    IF halted(m) THEN m
    ELSE [m EXCEPT !.io = @ \o <<[stack |-> m.stack, memory |-> m.memory], 10>>]

\* a binding loop that gives the words to the names last name first
RECURSIVE bind_last_name_first(_, _, _)
bind_last_name_first(let_bindings, stack, new_variables) ==
    IF let_bindings = <<>> THEN [stack |-> stack, variables |-> new_variables]
    ELSE bind_last_name_first(SubSeq(let_bindings, 1, Len(let_bindings) - 1),
                              without(stack, 1),
                              insert(new_variables,
                                     let_bindings[Len(let_bindings)],
                                     nth(stack, 1)))

\* the for loop of the LetBlock arm: one word popped for each name, in the
\* order of the names
RECURSIVE bind(_, _, _)
bind(let_bindings, stack, new_variables) ==
    IF let_bindings = <<>> THEN [stack |-> stack, variables |-> new_variables]
    ELSE bind(Tail(let_bindings), without(stack, 1),
              insert(new_variables, Head(let_bindings), nth(stack, 1)))

\* `return`: interpret_segment leaves its for loop
return(m) == IF halted(m) THEN m ELSE [m EXCEPT !.returned = TRUE]

\* the return of a block arm when the status is not None
return_unless_none(m) == IF m.status # "None" THEN return(m) ELSE m

set_status(m, status) == IF halted(m) THEN m ELSE [m EXCEPT !.status = status]

RECURSIVE interpret_segment(_, _, _, _, _, _)

\* an if that takes the false branch on a non-zero word
if_block_zero_is_true(this, token, m, variables, depth) ==
    IF halted(m) THEN m
    ELSE IF Len(m.stack) < 1 THEN panic_with(m, "underflow")
    ELSE LET segment == IF nth(m.stack, 1) = 0 THEN token.true_block
                        ELSE token.false_block
             popped == [m EXCEPT !.stack = without(@, 1)]
         IN  return_unless_none(
                 interpret_segment(this, segment, popped, variables,
                                   depth + 1, "IfBlock"))

\* Token::IfBlock
if_block(this, token, m, variables, depth) ==
    IF halted(m) THEN m
    ELSE IF Len(m.stack) < 1 THEN panic_with(m, "underflow")
    ELSE LET segment == IF nth(m.stack, 1) # 0 THEN token.true_block
                        ELSE token.false_block
             popped == [m EXCEPT !.stack = without(@, 1)]
         IN  return_unless_none(
                 interpret_segment(this, segment, popped, variables,
                                   depth + 1, "IfBlock"))

\* what both loops do with the status after a pass of the body: again is
\* TRUE when the loop goes on (`continue`, or the end of the loop's block)
\* and FALSE on `break`
after_pass(token, m, variables, depth) ==
    IF m.status = "Continue"
    THEN [m |-> set_status(note(m, "catch", token, variables, depth, token.op), "None"),
          again |-> TRUE]
    ELSE IF m.status = "Break"
    THEN [m |-> set_status(note(m, "catch", token, variables, depth, token.op), "None"),
          again |-> FALSE]
    ELSE [m |-> m, again |-> TRUE]

\* a loop that a Continue ends like a Break
RECURSIVE loop_block_ended_by_continue(_, _, _, _, _)
loop_block_ended_by_continue(this, token, m, variables, depth) ==
    IF halted(m) THEN m
    ELSE LET started == note(m, "pass", token, variables, depth, "LoopBlock")
             passed == interpret_segment(this, token.segment, started, variables,
                                         depth + 1, "LoopBlock")
             caught == after_pass(token, passed, variables, depth)
         IN  IF halted(passed) THEN passed
             ELSE IF caught.again /\ passed.status # "Continue"
             THEN loop_block_ended_by_continue(this, token, caught.m, variables, depth)
             ELSE note(caught.m, "exit", token, variables, depth, "LoopBlock")

\* Token::LoopBlock
RECURSIVE loop_block(_, _, _, _, _)
loop_block(this, token, m, variables, depth) ==
    IF halted(m) THEN m
    ELSE LET started == note(m, "pass", token, variables, depth, "LoopBlock")
             passed == interpret_segment(this, token.segment, started, variables,
                                         depth + 1, "LoopBlock")
             caught == after_pass(token, passed, variables, depth)
         IN  IF halted(passed) THEN passed
             ELSE IF caught.again
             THEN loop_block(this, token, caught.m, variables, depth)
             ELSE note(caught.m, "exit", token, variables, depth, "LoopBlock")

\* a while loop that tests the word its condition left without popping it
RECURSIVE while_block_keeping_the_word(_, _, _, _, _)
while_block_keeping_the_word(this, token, m, variables, depth) ==
    IF halted(m) THEN m
    ELSE LET started == note(m, "condition", token, variables, depth,
                             "WhileBlock")
             evaluated == interpret_segment(this, token.condition, started,
                                            variables, depth + 1, "WhileCondition")
             tested == note(evaluated, "test", token, variables, depth,
                            "WhileBlock")
             popped == tested
             entered == note(popped, "pass", token, variables, depth,
                             "WhileBlock")
             passed == interpret_segment(this, token.segment, entered, variables,
                                         depth + 1, "WhileBlock")
             caught == after_pass(token, passed, variables, depth)
         IN  IF halted(tested) THEN tested
             ELSE IF Len(tested.stack) < 1 THEN panic_with(tested, "underflow")
             ELSE IF nth(tested.stack, 1) = 0
             THEN note(popped, "exit", token, variables, depth, "WhileBlock")
             ELSE IF halted(passed) THEN passed
             ELSE IF caught.again
             THEN while_block_keeping_the_word(this, token, caught.m, variables, depth)
             ELSE note(caught.m, "exit", token, variables, depth, "WhileBlock")

\* Token::WhileBlock
RECURSIVE while_block(_, _, _, _, _)
while_block(this, token, m, variables, depth) ==
    IF halted(m) THEN m
    ELSE LET started == note(m, "condition", token, variables, depth,
                             "WhileBlock")
             evaluated == interpret_segment(this, token.condition, started,
                                            variables, depth + 1, "WhileCondition")
             tested == note(evaluated, "test", token, variables, depth,
                            "WhileBlock")
             popped == [tested EXCEPT !.stack = without(@, 1)]
             entered == note(popped, "pass", token, variables, depth,
                             "WhileBlock")
             passed == interpret_segment(this, token.segment, entered, variables,
                                         depth + 1, "WhileBlock")
             caught == after_pass(token, passed, variables, depth)
         IN  IF halted(tested) THEN tested
             ELSE IF Len(tested.stack) < 1 THEN panic_with(tested, "underflow")
             ELSE IF nth(tested.stack, 1) = 0
             THEN note(popped, "exit", token, variables, depth, "WhileBlock")
             ELSE IF halted(passed) THEN passed
             ELSE IF caught.again
             THEN while_block(this, token, caught.m, variables, depth)
             ELSE note(caught.m, "exit", token, variables, depth, "WhileBlock")

\* Token::FunctionCall
function_call(this, token, m, variables, depth) ==
    IF halted(m) THEN m
    ELSE IF token.function \notin DOMAIN this THEN panic_with(m, "lookup")
    ELSE interpret_segment(this, this[token.function], m, variables,
                           depth + 1, "FunctionCall")

\* a let block whose scope holds its own names only
let_block_fresh_scope(this, token, m, variables, depth) ==
    IF halted(m) THEN m
    ELSE IF Len(m.stack) < Len(token.let_bindings) THEN panic_with(m, "underflow")
    ELSE LET bound == bind(token.let_bindings, m.stack, empty_map)
             popped == [m EXCEPT !.stack = bound.stack]
             scoped == note(popped, "scope", token, bound.variables,
                            depth + 1, "LetBlock")
             done == interpret_segment(this, token.segment, scoped,
                                       bound.variables, depth + 1, "LetBlock")
         IN  return_unless_none(
                 note(done, "exit", token, variables, depth, "LetBlock"))

\* Token::LetBlock
let_block(this, token, m, variables, depth) ==
    IF halted(m) THEN m
    ELSE IF Len(m.stack) < Len(token.let_bindings) THEN panic_with(m, "underflow")
    ELSE LET bound == bind(token.let_bindings, m.stack, variables)
             popped == [m EXCEPT !.stack = bound.stack]
             scoped == note(popped, "scope", token, bound.variables,
                            depth + 1, "LetBlock")
             done == interpret_segment(this, token.segment, scoped,
                                       bound.variables, depth + 1, "LetBlock")
         IN  return_unless_none(
                 note(done, "exit", token, variables, depth, "LetBlock"))

\* Token::Let
let_ref(token, m, variables) ==
    IF halted(m) THEN m
    ELSE IF token.let_binding \notin DOMAIN variables THEN panic_with(m, "lookup")
    ELSE stack_push(m, variables[token.let_binding])

\* one turn of the for loop of interpret_segment: the match on the token
interpret_token(this, token, m, variables, depth, owner) ==
    LET started == note(m, "exec", token, variables, depth, owner)
        op == token.op
    IN  CASE op = "Push" -> stack_push(started, token.value)
          [] op = "Math" -> math(token.operand, started)
          [] op = "Cmp" -> cmp(token.operand, started)
          [] op = "Stack" -> stack_operation(token.operand, started)
          [] op = "Memory" -> memory_operation(token, started)
          [] op = "Putc" -> putc(started)
          [] op = "Putu" -> putu(started)
          [] op = "Debug" -> debug(started)
          [] op = "IfBlock" -> if_block(this, token, started, variables, depth)
          [] op = "LoopBlock" -> loop_block(this, token, started, variables, depth)
          [] op = "WhileBlock" -> while_block(this, token, started, variables, depth)
          [] op = "Break" -> return(set_status(started, "Break"))
          [] op = "Continue" -> return(set_status(started, "Continue"))
          [] op = "FunctionCall" ->
                function_call(this, token, started, variables, depth)
          [] op = "LetBlock" -> let_block(this, token, started, variables, depth)
          [] op = "Let" -> let_ref(token, started, variables)

\* Program::interpret_segment: the nodes of the segment in order, up to the
\* end of the segment or a `return`
interpret_segment(this, segment, m, variables, depth, owner) ==
    IF halted(m) \/ segment = <<>> THEN m
    ELSE LET done == interpret_token(this, Head(segment), m, variables, depth, owner)
         IN  IF halted(done) THEN done
             ELSE IF done.returned THEN [done EXCEPT !.returned = FALSE]
             ELSE interpret_segment(this, Tail(segment), done, variables, depth, owner)

\* a run that starts on the stack and the Memory the last run left
start_on_what_is_left(checked) ==
    [stack |-> IF phase = "done" THEN run.stack ELSE <<>>,
     memory |-> IF phase = "done" THEN run.memory ELSE new,
     status |-> "None", io |-> <<>>, log |-> <<>>,
     panic |-> "", cut |-> FALSE, checked |-> checked, returned |-> FALSE]

\* the run before its first node
start(checked) ==
    [stack |-> <<>>, memory |-> new, status |-> "None", io |-> <<>>, log |-> <<>>,
     panic |-> "", cut |-> FALSE, checked |-> checked, returned |-> FALSE]

\* Program::interpret
interpret(this, checked) ==
    IF "main" \notin DOMAIN this THEN panic_with(start(checked), "main")
    ELSE interpret_segment(this, this["main"], start(checked), empty_map, 0, "main")

(***************************************************************************)
(* A program parsed and run: the words the lexer hands the parser, then    *)
(* the function map Program::parse builds of them, then the run of `main`. *)
(***************************************************************************)
\* Program::parse on the words of the source text
Parse ==
    /\ phase = "source"
    /\ LET parsed == parse(source)
       IN  /\ program' = parsed.functions
           /\ phase' = IF parsed.panic THEN "rejected" ELSE "parsed"
    /\ UNCHANGED <<source, run, replay>>
    /\ UNCHANGED mem_vars
    /\ UNCHANGED lex_vars

\* Program::interpret on the parsed program, in a build with or without
\* overflow checks
Interpret ==
    /\ phase = "parsed"
    /\ \E checked \in BOOLEAN : run' = interpret(program, checked)
    /\ phase' = "done"
    /\ UNCHANGED <<source, program, replay>>
    /\ UNCHANGED mem_vars
    /\ UNCHANGED lex_vars

\* the same source text parsed and the program run once more by the same
\* build: a new Program::parse, and a new interpret with a stack, a Memory
\* and variables of its own
Replay ==
    /\ phase = "done"
    /\ LET parsed == parse(source)
       IN  replay' = [program |-> parsed.functions, panic |-> parsed.panic,
                      run |-> interpret(parsed.functions, run.checked)]
    /\ phase' = "replayed"
    /\ UNCHANGED <<source, program, run>>
    /\ UNCHANGED mem_vars
    /\ UNCHANGED lex_vars

\* all sequences of at most n elements of a set
SeqsUpTo(elements_, n) == UNION {[1..k -> elements_] : k \in 0..n}

\* the concatenation of a sequence of word sequences
RECURSIVE flatten(_)
flatten(chunks) ==
    IF chunks = <<>> THEN <<>> ELSE Head(chunks) \o flatten(Tail(chunks))

\* a source text that defines main, and one that defines f before it
Main(body) == <<"fn", "main", "{">> \o body \o <<"}">>

WithF(f_body, body) == <<"fn", "f", "{">> \o f_body \o <<"}">> \o Main(body)

\* the words that stand for one node each, except break and continue
Operations == DOMAIN simple_words \ {"break", "continue"}

\* programs of operations: some numbers pushed, then one operation, then
\* what is left on top written out or not
OperationPrograms ==
    {Main(pushes \o <<operation>> \o output) :
        pushes \in SeqsUpTo({"0", "6", "13"}, MaxPushes),
        operation \in Operations,
        output \in {<<>>, <<"putu">>, <<"putc">>}}

\* programs of loops: main is a run of pieces, a loop around such a run, or
\* a while loop whose condition and body are such runs, and f may break
ControlPieces ==
    {<<"1">>, <<"0">>, <<"break">>, <<"continue">>, <<"f">>,
     <<"if", "{", "break", "}">>, <<"let", "a", "{", "break", "}">>}

ControlBodies == {flatten(pieces) : pieces \in SeqsUpTo(ControlPieces, MaxPieces)}

\* the conditions and the bodies of the while loops: at most two words
ConditionBodies == SeqsUpTo({"1", "0", "break", "f"}, 2)

WhileBodies == SeqsUpTo({"1", "0", "break", "continue", "f", "putu"}, 2)

FunctionBodies == {<<>>, <<"break">>, <<"continue">>}

ControlPrograms ==
    {WithF(f_body, body) : f_body \in FunctionBodies, body \in ControlBodies}
    \cup {WithF(f_body, <<"loop", "{">> \o body \o <<"}", "3", "putu">>) :
            f_body \in FunctionBodies, body \in ControlBodies}
    \cup {WithF(f_body, <<"while", "{">> \o condition \o <<"}", "{">> \o body
                        \o <<"}", "3", "putu">>) :
            f_body \in FunctionBodies, condition \in ConditionBodies,
            body \in WhileBodies}

\* programs of let blocks: three numbers pushed, then a run of let headers,
\* names, closing braces and calls of f, which has a let block of its own
LetPieces ==
    {<<"let", "a", "{">>, <<"let", "b", "{">>, <<"let", "a", "b", "{">>,
     <<"a">>, <<"b">>, <<"}">>, <<"f">>}

LetPrograms ==
    {WithF(<<"let", "a", "{", "a", "}">>, <<"1", "2", "3">> \o flatten(pieces)) :
        pieces \in SeqsUpTo(LetPieces, MaxLets)}

\* programs of names: after an empty f and the start of main, any run of
\* the words that declare, close and name things
NameWords == {"let", "a", "f", "main", "fn", "{", "}"}

NamePrograms ==
    {<<"fn", "f", "{", "}", "fn", "main", "{", "1", "2">> \o text :
        text \in SeqsUpTo(NameWords, MaxWords)}

\* programs of if blocks: 5 and the word to test are pushed, then an if with
\* or without an else, then `3 putu`
IfBranches == {<<>>, <<"1">>, <<"2", "putu">>, <<"break">>}

IfPrograms ==
    {Main(<<"5", tested, "if", "{">> \o true_block \o <<"}">> \o else_part
          \o <<"3", "putu">>) :
        tested \in {"0", "6"},
        true_block \in IfBranches,
        else_part \in {<<>>} \cup {<<"else", "{">> \o false_block \o <<"}">> :
                                     false_block \in IfBranches}}

\* programs of block openings: main pushes 1 and opens a block by one of
\* the keywords; where the brace is due comes the brace or another word,
\* and then one of a few endings
BlockHeads ==
    {<<"loop">>, <<"if">>, <<"if", "{", "}", "else">>, <<"while">>,
     <<"while", "{", "0", "}">>}

\* the brace, a number, a closing brace, a keyword and an unknown name
BlockOpenings == {"{", "1", "}", "if", "a"}

BlockEndings == {<<>>, <<"}">>, <<"0", "}">>, <<"0", "}", "{", "}">>}

BlockPrograms ==
    {<<"fn", "main", "{", "1">> \o head \o <<opening>> \o ending \o <<"}">> :
        head \in BlockHeads, opening \in BlockOpenings,
        ending \in BlockEndings}
    \cup {<<"fn", "main", opening>> \o ending \o <<"}">> :
            opening \in BlockOpenings, ending \in BlockEndings}

\* programs of memory operations: a run of string literals, allocations,
\* stores that keep the address, loads, frees of the first two bytes and
\* drops
MemoryPieces ==
    {<<"\"a\"">>, <<"\"\"">>, <<"1", "alloc">>, <<"dup", "6", "->">>, <<"<-">>,
     <<"0", "2", "free">>, <<"drop">>}

MemoryPrograms ==
    {Main(flatten(pieces)) : pieces \in SeqsUpTo(MemoryPieces, MaxPieces)}

\* programs of stack operations: 1, 2 and 3 are pushed, then a run of
\* stack operations
StackPrograms ==
    {Main(<<"1", "2", "3">> \o operations) :
        operations \in SeqsUpTo({"dup", "swap", "over", "rot", "drop"}, MaxPieces)}

\* programs of let names: main binds one name and refers to it in the body
\* of the let; the name is a keyword, an operator symbol, a number, a string
\* literal, the function f or a name of its own
LetNames == {"dup", "-", "putu", "break", "fn", "else", "3", "\"a\"", "f", "a"}

Shadow(name) == WithF(<<>>, <<"1", "let", name, "{", name, "}">>)

ShadowPrograms == {Shadow(name) : name \in LetNames}

\* programs that end early: one text of nested blocks, cut off after each of
\* its words
Whole ==
    Main(<<"1", "if", "{", "2", "loop", "{", "3", "let", "a", "{", "a",
           "while", "{", "0", "}", "{", "4", "}", "break", "}", "}", "}",
           "else", "{", "5", "}">>)

TruncatedPrograms == {SubSeq(Whole, 1, n) : n \in 1..Len(Whole)}

\* a function that is defined twice and calls itself, a let that binds the
\* name of a function, a let whose names run to the end of the text, a
\* program without main, and a call of a function that is defined later
OtherPrograms ==
    {WithF(<<>>, <<"f", "}", "fn", "f", "{", "f">>),
     WithF(<<>>, <<"1", "let", "f", "{", "f", "}">>),
     Main(<<"1", "let", "a", "b">>),
     <<"fn", "f", "{", "}">>,
     Main(<<"f">>) \o <<"fn", "f", "{", "}">>}

Programs ==
    OperationPrograms \cup ControlPrograms \cup LetPrograms
        \cup NamePrograms \cup IfPrograms \cup BlockPrograms
        \cup MemoryPrograms \cup StackPrograms \cup ShadowPrograms
        \cup TruncatedPrograms \cup OtherPrograms

RunInit ==
    /\ NewMemory
    /\ NoSource
    /\ source \in Programs
    /\ phase = "source"
    /\ program = <<>>
    /\ run = <<>>
    /\ replay = <<>>

RunNext ==
    \/ Parse
    \/ Interpret
    \/ Replay

RunSpec == RunInit /\ [][RunNext]_vars

(***************************************************************************)
(* Properties of the allocator.                                            *)
(***************************************************************************)
\* the addresses of the address space 0..MAX-1 an extent covers
covered(extent) == range(extent[1], extent[2])

AddressSpace == 0..(MAX - 1)

\* C1: the free extents are pairwise non-overlapping and every address is
\* either inside exactly one free extent or live (handed out and not freed),
\* never both and never neither.
C1_FreeAndLivePartition ==
    /\ \A i, j \in 1..Len(free) :
          i # j => covered(free[i]) \cap covered(free[j]) = {}
    /\ \A a \in AddressSpace :
          (a \in live) # (\E i \in 1..Len(free) : a \in covered(free[i]))

\* C2: alloc reserves the range it returns: no later push, extend or alloc
\* returns an address inside a range alloc handed out, unless remove was
\* called on it in between.
C2_AllocReserves ==
    [][(~panicked' /\ last' \in {"push", "extend", "alloc"})
          => ret' \notin reserved]_vars

\* C3: the free list is in strictly ascending order of start address and no
\* extent of it ends where another one starts.
C3_SortedCoalesced ==
    /\ \A i \in 1..(Len(free) - 1) : free[i][1] < free[i + 1][1]
    /\ \A i, j \in 1..Len(free) :
          i # j => free[i][1] + free[i][2] # free[j][1]

\* C4: once every byte handed out by push and extend has been freed, the
\* free list is the single extent (0, MAX) and every byte of the buffer is 0.
C4_FreeAllRestores ==
    live = {} =>
        /\ free = << <<0, MAX>> >>
        /\ \A i \in 1..Len(memory) : memory[i] = 0

\* the start of the lowest-addressed free extent with room for len bytes
lowest_fit(len) ==
    CHOOSE a \in {free[i][1] : i \in {k \in 1..Len(free) : free[k][2] >= len}} :
        \A i \in 1..Len(free) : free[i][2] >= len => a <= free[i][1]

\* C5: first fit: extend returns the start of the lowest-addressed free
\* extent with room for the data, push the start of the lowest-addressed free
\* extent, and afterwards the buffer holds the written data at that address.
C5_FirstFit ==
    [][/\ \A value \in Bytes :
             (Push(value) /\ ~panicked') =>
                 /\ ret' = lowest_fit(0)
                 /\ memory'[ret' + 1] = value
       /\ \A data \in Slices :
             (Extend(data) /\ ~panicked') =>
                 /\ ret' = lowest_fit(Len(data))
                 /\ SubSeq(memory', ret' + 1, ret' + Len(data)) = data]_vars

\* C6: with push and extend only, every call returns the number of bytes
\* written before it, appends its data to the buffer, and leaves the single
\* free extent (total, MAX - total).
C6_AppendOnly ==
    [][/\ \A value \in Bytes :
             Push(value) =>
                 /\ ret' = Len(memory)
                 /\ memory' = Append(memory, value)
       /\ \A data \in Slices :
             Extend(data) =>
                 /\ ret' = Len(memory)
                 /\ memory' = memory \o data
       /\ free' = << <<Len(memory'), MAX - Len(memory')>> >>]_vars

\* the run of test_memory scaled down: slices of 2 and 1 bytes, then a push,
\* at the addresses 0, 2 and 3
C6_Witness ==
    /\ last = "push"
    /\ ret = 3
    /\ memory = <<1, 1, 0, 1>>
    /\ free = << <<4, MAX - 4>> >>

\* C7 as claimed: a read at or past the end of the buffer yields the byte 0
\* and does not fail.
C7_ReadPastEndIsZero ==
    [][\A index \in Addresses :
          index >= Len(memory) =>
              /\ Get(index) => (ret' = 0 /\ ~panicked')
              /\ LoadByte(index) => (ret' = 0 /\ ~panicked')]_vars

\* C7 as amended: a read at or past the end of the buffer yields no byte:
\* get returns None, LoadByte aborts the run, and the Memory is unchanged.
C7_ReadPastEndFails ==
    [][\A index \in Addresses :
          index >= Len(memory) =>
              /\ Get(index) => (ret' = None /\ ~panicked')
              /\ LoadByte(index) => panicked'
              /\ (Get(index) \/ LoadByte(index)) => UNCHANGED <<memory, free>>]_vars

\* a get past the end of a non-empty buffer has returned None
C7_Witness ==
    /\ last = "get"
    /\ ret = None
    /\ memory # <<>>

\* C8: remove zeroes the bytes of its range and leaves every other byte and
\* the length of the buffer as they were; no call shortens the buffer.
C8_RemoveFrame ==
    [][/\ Len(memory') >= Len(memory)
       /\ \A address \in Addresses, len \in 1..MaxMem :
             (last' = "remove" /\ ~panicked' /\ Remove(address, len)) =>
                 /\ Len(memory') = Len(memory)
                 /\ \A i \in 1..Len(memory) :
                       memory'[i] = IF i - 1 \in range(address, len)
                                    THEN 0 ELSE memory[i]]_vars

\* a remove has zeroed a written byte and left another written byte alone
C8_Witness ==
    /\ last = "remove"
    /\ \E i, j \in 1..Len(memory) :
          /\ memory[i] = 1 /\ (i - 1) \in live
          /\ memory[j] = 0 /\ (j - 1) \notin live

\* what a call of extend or alloc for len bytes may do to the free list: the
\* extent it selected, the first with room for len bytes, is removed when it
\* is left with no byte; every other extent is as it was; and no extent of
\* the list after the call is empty
selected_extent_only(len) ==
    LET index == position(free, len)
        left == free[index + 1][2] - len
    IN  /\ IF left = 0
           THEN free' = vec_remove(free, index)
           ELSE /\ Len(free') = Len(free)
                /\ \A i \in 1..Len(free) : i # index + 1 => free'[i] = free[i]
        /\ \A i \in 1..Len(free') : free'[i][2] # 0

\* C26: extend and alloc change only the free extent they selected: when
\* that extent is left with length zero it, and no other, is removed from
\* the free list, every other free extent keeps its start and length, and no
\* zero-length extent remains in the free list, also when the selected
\* extent is not the first of the list.
C26_OnlyTheSelectedExtentChanges ==
    [][/\ \A data \in Slices :
             (last' = "extend" /\ ~panicked' /\ Extend(data))
                 => selected_extent_only(Len(data))
       /\ \A len \in Lengths :
             (last' = "alloc" /\ ~panicked' /\ Alloc(len))
                 => selected_extent_only(len)]_vars

(***************************************************************************)
(* Properties of the lexer.                                                *)
(***************************************************************************)
whitespace == {" ", "\n", "\t"}

\* Reads a text as the lexer's contract describes it: the words between
\* whitespace that lie outside // comments, each "..." literal one token.
\* mode is "outside", "comment" or "string", word the token being read.
\* separated tells whether whitespace followed every token (a token cut
\* short by the end of the text, a comment or a quote makes it FALSE).
RECURSIVE words(_, _, _, _, _)
words(text, mode, word, out, separated) ==
    IF text = <<>>
    THEN [tokens |-> out, separated |-> separated /\ mode # "string" /\ word = <<>>]
    ELSE
        LET c == Head(text)
            rest == Tail(text)
            cut == IF word = <<>> THEN out ELSE Append(out, word)
        IN  CASE mode = "comment" ->
                    IF c = "\n" THEN words(rest, "outside", <<>>, out, separated)
                    ELSE words(rest, "comment", <<>>, out, separated)
              [] mode = "string" ->
                    IF c = "\""
                    THEN words(rest, "outside", <<>>, Append(out, Append(word, c)),
                               separated /\ rest # <<>> /\ Head(rest) \in whitespace)
                    ELSE words(rest, "string", Append(word, c), out, separated)
              [] OTHER ->
                    IF c = "/" /\ rest # <<>> /\ Head(rest) = "/"
                    THEN words(Tail(rest), "comment", <<>>, cut,
                               separated /\ word = <<>>)
                    ELSE IF c \in whitespace
                    THEN words(rest, "outside", <<>>, cut, separated)
                    ELSE IF c = "\""
                    THEN words(rest, "string", <<c>>, cut, separated /\ word = <<>>)
                    ELSE words(rest, "outside", Append(word, c), out, separated)

\* C9: for a source text in which whitespace follows every token, the lexer
\* emits exactly the whitespace-separated words outside comments, each string
\* literal as one token, and then signals the end of input.
C9_TokensAreTheWords ==
    eof =>
        LET r == words(src, "outside", <<>>, <<>>, TRUE)
        IN  r.separated => tokens = r.tokens

\* a text without its comments: every // outside a string literal is deleted
\* with everything up to, not including, the next newline
RECURSIVE strip_comments(_, _, _)
strip_comments(text, in_string, in_comment) ==
    IF text = <<>> THEN <<>>
    ELSE
        LET c == Head(text)
            rest == Tail(text)
        IN  IF in_comment
            THEN IF c = "\n" THEN <<c>> \o strip_comments(rest, FALSE, FALSE)
                 ELSE strip_comments(rest, FALSE, TRUE)
            ELSE IF in_string
            THEN <<c>> \o strip_comments(rest, c # "\"", FALSE)
            ELSE IF c = "/" /\ rest # <<>> /\ Head(rest) = "/"
            THEN strip_comments(Tail(rest), FALSE, TRUE)
            ELSE <<c>> \o strip_comments(rest, c = "\"", FALSE)

\* C10: the token sequence of a text is the token sequence of the text with
\* its comments deleted.
C10_CommentsAreStripped ==
    eof => tokens = collect(strip_comments(src, FALSE, FALSE))

\* the character next() read last during the step
last_read == code[Len(code) - Len(code')]

\* a token that holds a quote: a string literal, or what led up to one
quoted(token) == \E i \in 1..Len(token) : token[i] = "\""

\* C11: a token without a quote is emitted only when a separator is read
\* while the accumulator is non-empty (a token with a quote only when its
\* closing quote is read), and when the text ends next() returns None and
\* emits nothing, so that a last word with no separator after it is dropped.
C11_EmittedOnlyAtSeparator ==
    [][/\ eof' => /\ tokens' = tokens
                  /\ code' = <<>>
       /\ tokens' # tokens =>
            LET token == tokens'[Len(tokens')]
            IN  /\ tokens' = Append(tokens, token)
                /\ token # <<>>
                /\ Len(code') < Len(code)
                /\ IF quoted(token)
                   THEN last_read = "\"" /\ token[Len(token)] = "\""
                   ELSE last_read \in separators]_vars

\* the text "a a" was read to its end: the second word was never emitted
C11_Witness ==
    /\ eof
    /\ src = <<"a", " ", "a">>
    /\ tokens = << <<"a">> >>

(***************************************************************************)
(* Properties of the evaluator.                                            *)
(***************************************************************************)
\* the events of the run at which a node of one of the given kinds started
executions(ops) ==
    {i \in 1..Len(run.log) : run.log[i].ev = "exec" /\ run.log[i].op \in ops}

\* what a node is to write by its event: the decimal digits of the word on
\* top of the stack for Putu, the UTF-8 encoding of the character with that
\* code point for Putc
written(event) ==
    IF event.ev # "exec" \/ event.stack = <<>> THEN <<>>
    ELSE IF event.op = "Putu" THEN decimal(nth(event.stack, 1))
    ELSE IF event.op = "Putc" THEN utf8(nth(event.stack, 1))
    ELSE <<>>

RECURSIVE all_written(_)
all_written(events) ==
    IF events = <<>> THEN <<>>
    ELSE written(Head(events)) \o all_written(Tail(events))

\* C12: in a run without Debug the sink receives, in the order of execution,
\* the decimal digits of the popped word for every Putu and the UTF-8
\* encoding of the character whose code point is the popped word for every
\* Putc, and nothing else.
C12_OutputIsDigitsAndCharacters ==
    (phase = "done" /\ executions({"Debug"}) = {})
        => run.io = all_written(run.log)

\* the number of words a node consumes when the event happens: the operands
\* of an executed node, and the word a while loop pops after its condition
consumes(event) ==
    IF event.ev = "test" THEN 1
    ELSE IF event.ev # "exec" THEN 0
    ELSE IF event.op \in {"Add", "Sub", "Mul", "Less", "Greater", "Equal",
                          "Swap", "Over", "StoreByte", "Free"} THEN 2
    ELSE IF event.op = "Rot" THEN 3
    ELSE IF event.op \in {"Dup", "Drop", "IfBlock", "Putc", "Putu", "LoadByte",
                          "Alloc"} THEN 1
    ELSE IF event.op = "LetBlock" THEN Len(event.node.let_bindings)
    ELSE 0

\* the events at which the stack held fewer words than the node consumes
underflows ==
    {i \in 1..Len(run.log) : Len(run.log[i].stack) < consumes(run.log[i])}

\* C13: stack underflow is fatal for every popping operation: a node that
\* is executed when the stack holds fewer words than it consumes aborts the
\* run, so that it is the last event of the run; `drop` on an empty stack
\* included.
C13_UnderflowIsFatal ==
    phase = "done" =>
        \A i \in underflows : run.panic # "" /\ i = Len(run.log)

\* a loop consumes the status between the events i and j
caught_between(i, j) ==
    \E k \in (i + 1)..(j - 1) : run.log[k].ev = "catch"

\* C14: once a Break or Continue node has executed, no other node executes
\* until a LoopBlock or WhileBlock consumes the status: the rest of every
\* enclosing segment is skipped, the rest of the caller's segment included
\* when the node executed in the body of a called function.
C14_NothingRunsBeforeTheCatch ==
    phase = "done" =>
        \A i \in executions({"Break", "Continue"}) :
            \A j \in executions({run.log[n].op : n \in 1..Len(run.log)}) :
                j > i => caught_between(i, j)

\* the events at which a LoopBlock or a WhileBlock finished
loop_exits ==
    {i \in 1..Len(run.log) :
        run.log[i].ev = "exit" /\ run.log[i].op \in {"LoopBlock", "WhileBlock"}}

\* C15: whenever a LoopBlock or WhileBlock finishes, by Break or by a
\* condition that yields zero, the status is None: no Break or Continue
\* escapes the loop it ran in, and when main ends with such a loop the run
\* ends with the status None.
C15_StatusNoneAfterLoop ==
    phase = "done" =>
        /\ \A i \in loop_exits : run.log[i].status = "None"
        /\ (~halted(run) /\ Len(run.log) \in loop_exits) => run.status = "None"

\* the events of a kind that are about a node of a kind
events(ev, op) ==
    {i \in 1..Len(run.log) : run.log[i].ev = ev /\ run.log[i].op = op}

\* the first event after event i that is not inside a segment called at
\* i's depth (the next event of the same block, or the first one after
\* it), 0 when the log ends before
next_outside(i) ==
    LET later == {j \in (i + 1)..Len(run.log) : run.log[j].depth <= run.log[i].depth}
    IN  IF later = {} THEN 0 ELSE CHOOSE j \in later : \A k \in later : j <= k

\* event j is the given event of the block that event i is about
same_block(i, j, ev) ==
    /\ run.log[j].ev = ev
    /\ run.log[j].node = run.log[i].node
    /\ run.log[j].depth = run.log[i].depth

\* the run was not cut off or aborted right after event i
followed(i) == i < Len(run.log)

top(event) == nth(event.stack, 1)

\* C17: a WhileBlock evaluates its condition before every pass and pops
\* exactly one word per evaluation: a non-zero word is followed by a pass of
\* the body and a zero word ends the loop, so that the body is passed once
\* for each non-zero word popped before the first zero word or Break; after
\* a pass, and after a Continue, the condition is evaluated again before the
\* next pass.
C17_WhileTestsBeforeEveryPass ==
    phase = "done" =>
        /\ \A i \in events("exec", "WhileBlock") :
              followed(i) => same_block(i, i + 1, "condition")
        /\ \A i \in events("condition", "WhileBlock") :
              next_outside(i) # 0 => same_block(i, next_outside(i), "test")
        /\ \A i \in events("test", "WhileBlock") :
              (followed(i) /\ run.log[i].stack # <<>>) =>
                  /\ same_block(i, i + 1, IF top(run.log[i]) = 0 THEN "exit" ELSE "pass")
                  /\ run.log[i + 1].stack = without(run.log[i].stack, 1)
        /\ \A i \in events("pass", "WhileBlock") :
              /\ same_block(i, i - 1, "test")
              /\ next_outside(i) # 0 =>
                    \/ same_block(i, next_outside(i), "catch")
                    \/ same_block(i, next_outside(i), "condition")
        /\ \A i \in events("catch", "WhileBlock") :
              followed(i) =>
                  same_block(i, i + 1, IF run.log[i].status = "Break" THEN "exit"
                                       ELSE "condition")
        /\ \A i \in events("exit", "WhileBlock") :
              \/ same_block(i, i - 1, "test") /\ top(run.log[i - 1]) = 0
              \/ same_block(i, i - 1, "catch") /\ run.log[i - 1].status = "Break"

\* `while { 0 } { 1 }` was run: the condition was evaluated once and the
\* body was not passed
C17_Witness ==
    /\ phase = "done"
    /\ source = WithF(<<>>, <<"while", "{", "0", "}", "{", "1", "}", "3", "putu">>)
    /\ Cardinality(events("condition", "WhileBlock")) = 1
    /\ events("pass", "WhileBlock") = {}
    /\ run.stack = <<>>
    /\ run.io = <<51>>

\* the names of a let block that no later name of the block repeats
final_names(let_bindings) ==
    {k \in 1..Len(let_bindings) :
        \A j \in (k + 1)..Len(let_bindings) : let_bindings[j] # let_bindings[k]}

\* C18: a LetBlock binds its names by popping the stack in declaration
\* order: the first declared name receives the top word, the second the
\* word below it, and so on; the words are removed from the stack and a
\* reference to a name in the body pushes the word bound to it.
C18_LetPopsInDeclarationOrder ==
    phase = "done" =>
        /\ \A i \in events("exec", "LetBlock") :
              LET names == run.log[i].node.let_bindings
                  before == run.log[i].stack
              IN  (followed(i) /\ Len(before) >= Len(names)) =>
                      /\ same_block(i + 1, i + 1, "scope")
                      /\ run.log[i + 1].node = run.log[i].node
                      /\ run.log[i + 1].stack = without(before, Len(names))
                      /\ \A k \in final_names(names) :
                            run.log[i + 1].variables[names[k]] = nth(before, k)
        /\ \A i \in events("exec", "Let") :
              followed(i) =>
                  run.log[i + 1].stack =
                      Append(run.log[i].stack,
                             run.log[i].variables[run.log[i].node.let_binding])

\* `let a b { a b }` was run on the stack [1, 2, 3]: a = 3 and b = 2, and
\* the body pushed 3, then 2
C18_Witness ==
    /\ phase = "done"
    /\ source = WithF(<<"let", "a", "{", "a", "}">>,
                      <<"1", "2", "3", "let", "a", "b", "{", "a", "b", "}">>)
    /\ \E i \in events("scope", "LetBlock") :
          /\ run.log[i].variables["a"] = 3
          /\ run.log[i].variables["b"] = 2
          /\ run.log[i].stack = <<1>>
    /\ run.stack = <<1, 3, 2>>

\* the event at which the block that started at event i finished, 0 when
\* the log ends before
exit_of(i) ==
    IF next_outside(i) # 0 /\ same_block(i, next_outside(i), "exit")
    THEN next_outside(i) ELSE 0

\* C19: let bindings are scoped to their block: the scope of the block is
\* the enclosing one with the block's names bound anew, so that an enclosing
\* binding that is not shadowed stays visible; every node of the body runs
\* in that scope; and when the block has finished, the nodes after it run in
\* the enclosing scope again, where a shadowed name has its old value and a
\* name of the block alone is not bound.
C19_LetBindingsAreScoped ==
    phase = "done" =>
        \A i \in events("exec", "LetBlock") :
            LET enclosing == run.log[i].variables
                names == elements(run.log[i].node.let_bindings)
                inside == IF followed(i) THEN run.log[i + 1].variables ELSE enclosing
                end == exit_of(i)
                body == {j \in (i + 2)..(IF end = 0 THEN Len(run.log) ELSE end - 1) :
                            run.log[j].depth = run.log[i].depth + 1}
            IN  (followed(i) /\ run.log[i + 1].ev = "scope") =>
                    /\ DOMAIN inside = DOMAIN enclosing \cup names
                    /\ \A name \in DOMAIN enclosing \ names :
                          inside[name] = enclosing[name]
                    /\ \A j \in body : run.log[j].variables = inside
                    /\ end # 0 =>
                          /\ run.log[end].variables = enclosing
                          /\ (next_outside(end) # 0
                              /\ run.log[next_outside(end)].depth = run.log[i].depth)
                                => run.log[next_outside(end)].variables = enclosing

\* `let a { let a { } a` was run on the stack [1, 2, 3]: the inner block
\* shadowed a = 3 by a = 2, and after it a was 3 again
C19_Witness ==
    /\ phase = "done"
    /\ source = WithF(<<"let", "a", "{", "a", "}">>,
                      <<"1", "2", "3", "let", "a", "{", "let", "a", "{", "}", "a">>)
    /\ \E i \in events("scope", "LetBlock") : run.log[i].variables["a"] = 2
    /\ run.stack = <<1, 3>>

\* C20: for every program the parser accepts, evaluation never fails a name
\* lookup: every Let node that is executed finds its name bound in the
\* variables it runs with, and every FunctionCall node that is executed
\* names a function of the program, calls made from inside let blocks
\* included.
C20_LookupsNeverFail ==
    phase = "done" =>
        /\ run.panic # "lookup"
        /\ \A i \in executions({"Let"}) :
              run.log[i].node.let_binding \in DOMAIN run.log[i].variables
        /\ \A i \in executions({"FunctionCall"}) :
              run.log[i].node.function \in DOMAIN program

\* a function was called from inside a let block and looked up a name that
\* its own let block had bound, and the run ended without a panic
C20_Witness ==
    /\ phase = "done"
    /\ run.panic = ""
    /\ \E i \in executions({"FunctionCall"}), j \in executions({"Let"}) :
          /\ run.log[i].variables # empty_map
          /\ j > i
          /\ run.log[j].depth = run.log[i].depth + 2
          /\ DOMAIN run.log[i].variables = {"b"}
          /\ run.log[j].node.let_binding = "a"

\* the run went on after the node of event i: the node returned normally
completed(i) == i < Len(run.log) \/ ~halted(run)

\* the stack a node that holds no segment left when it returned
stack_after(i) ==
    IF i < Len(run.log) THEN run.log[i + 1].stack ELSE run.stack

\* the exact value of an arithmetic node on the operands a (second popped)
\* and b (first popped), and the word of a comparison node
value_of(op, a, b) ==
    CASE op = "Add" -> a + b
      [] op = "Sub" -> a - b
      [] op = "Mul" -> a * b
      [] op = "Less" -> IF a < b THEN 1 ELSE 0
      [] op = "Greater" -> IF a > b THEN 1 ELSE 0
      [] op = "Equal" -> IF a = b THEN 1 ELSE 0

\* C21: an arithmetic or comparison node pops two words and pushes one, the
\* second-popped word a (the deeper one) being the left operand and the
\* first-popped word b the right one: `-` pushes a - b, `<`, `>` and `=`
\* push 1 when a < b, a > b, a = b and 0 otherwise, and the words below a are
\* unchanged.  The value is that of machine arithmetic: when a - b (a + b,
\* a * b) is no machine word the node aborts the run in a build that checks
\* overflow and pushes the value modulo 2^w in one that does not.
C21_LeftOperandIsTheDeeperWord ==
    phase = "done" =>
        \A i \in executions({"Add", "Sub", "Mul", "Less", "Greater", "Equal"}) :
            LET before == run.log[i].stack
                exact == value_of(run.log[i].op, nth(before, 2), nth(before, 1))
            IN  Len(before) >= 2 =>
                    IF exact \in 0..MAX
                    THEN completed(i) =>
                             stack_after(i) = Append(without(before, 2), exact)
                    ELSE IF run.checked
                    THEN run.panic = "overflow" /\ i = Len(run.log)
                    ELSE completed(i) =>
                             stack_after(i) =
                                 Append(without(before, 2), exact % Modulus)

\* `0 13 6 - putu` was run: 13 - 6 = 7 was written and the 0 below is left
C21_Witness ==
    /\ phase = "done"
    /\ source = Main(<<"0", "13", "6", "-", "putu">>)
    /\ run.io = <<55>>
    /\ run.stack = <<0>>

\* what the run was after the node of event i returned, for a node that
\* returned before the next event or the end of the run
state_after(i) ==
    IF i < Len(run.log)
    THEN [stack |-> run.log[i + 1].stack, status |-> run.log[i + 1].status,
          memory |-> run.log[i + 1].memory, io |-> run.log[i + 1].io]
    ELSE [stack |-> run.stack, status |-> run.status,
          memory |-> run.memory, io |-> run.io]

\* the events at which the nodes of the segment that the block of event i
\* runs started: the nodes one call deeper, up to the end of the block
direct(i) ==
    {j \in (i + 1)..(IF next_outside(i) = 0 THEN Len(run.log)
                     ELSE next_outside(i) - 1) :
        run.log[j].ev = "exec" /\ run.log[j].depth = run.log[i].depth + 1}

\* every node of a segment, the nodes of its blocks included
RECURSIVE all_nodes(_)
all_nodes(segment) ==
    UNION {{segment[k]} \cup
           (CASE segment[k].op = "IfBlock" ->
                     all_nodes(segment[k].true_block)
                         \cup all_nodes(segment[k].false_block)
              [] segment[k].op = "WhileBlock" ->
                     all_nodes(segment[k].condition)
                         \cup all_nodes(segment[k].segment)
              [] segment[k].op \in {"LoopBlock", "LetBlock"} ->
                     all_nodes(segment[k].segment)
              [] OTHER -> {}) : k \in 1..Len(segment)}

\* every node of the program
program_nodes == UNION {all_nodes(program[f]) : f \in DOMAIN program}

\* C22: an IfBlock pops exactly one word and executes exactly one branch,
\* the true branch when the word is non-zero and the false branch otherwise:
\* the nodes it runs are the nodes of that branch, in order, on the stack
\* without the word, up to the end of the branch or to a node that leaves a
\* status; when the source has no `else` the false branch is empty, so that
\* a zero word is popped and nothing else changes.
C22_IfRunsOneBranch ==
    /\ (phase \in {"parsed", "done"} /\ ~contains(source, "else")) =>
          \A node \in program_nodes :
              node.op = "IfBlock" => node.false_block = <<>>
    /\ phase = "done" =>
          \A i \in events("exec", "IfBlock") :
              LET before == run.log[i].stack
                  chosen == IF top(run.log[i]) # 0
                            THEN run.log[i].node.true_block
                            ELSE run.log[i].node.false_block
                  unchanged == [stack |-> without(before, 1),
                                status |-> run.log[i].status,
                                memory |-> run.log[i].memory,
                                io |-> run.log[i].io]
              IN  (before # <<>> /\ completed(i)) =>
                      /\ chosen = <<>> =>
                            /\ state_after(i) = unchanged
                            /\ direct(i) = {}
                      /\ (chosen # <<>> /\ followed(i)) =>
                            /\ state_after(i) = unchanged
                            /\ i + 1 \in direct(i)
                            /\ run.log[i + 1].variables = run.log[i].variables
                      /\ \A j \in direct(i) :
                            LET k == Cardinality({x \in direct(i) : x <= j})
                            IN  /\ k <= Len(chosen)
                                /\ run.log[j].node = chosen[k]
                                /\ run.log[j].owner = "IfBlock"
                      /\ (next_outside(i) # 0
                          /\ run.log[next_outside(i)].status = "None")
                            => Cardinality(direct(i)) = Len(chosen)

\* `5 0 if { 1 } 3 putu` was run: the if has no else, the zero was popped
\* and nothing ran before `3 putu`
C22_Witness ==
    /\ phase = "done"
    /\ source = Main(<<"5", "0", "if", "{", "1", "}", "3", "putu">>)
    /\ program["main"][3].false_block = <<>>
    /\ \E i \in events("exec", "IfBlock") : direct(i) = {}
    /\ run.stack = <<5>>
    /\ run.io = <<51>>

(***************************************************************************)
(* Properties of the parser.                                               *)
(***************************************************************************)
\* the position of the brace that closes the block opened just before
\* position k of a text, open counting the blocks opened since; 0 when the
\* text ends before
RECURSIVE closing(_, _, _)
closing(text, k, open) ==
    IF k > Len(text) THEN 0
    ELSE IF text[k] = "{" THEN closing(text, k + 1, open + 1)
    ELSE IF text[k] # "}" THEN closing(text, k + 1, open)
    ELSE IF open = 0 THEN k
    ELSE closing(text, k + 1, open - 1)

\* a block-opening keyword of the text is followed by a word other than `{`:
\* `fn <name>`, `loop`, `if`, `else`, `while`, or the condition block of a
\* `while`
missing_brace(text) ==
    \E k \in 1..Len(text) :
        \/ /\ text[k] \in {"loop", "if", "else", "while"}
           /\ k < Len(text)
           /\ text[k + 1] # "{"
        \/ /\ text[k] = "fn"
           /\ k + 2 <= Len(text)
           /\ text[k + 2] # "{"
        \/ /\ text[k] = "while"
           /\ k < Len(text)
           /\ text[k + 1] = "{"
           /\ LET end == closing(text, k + 2, 0)
              IN  end # 0 /\ end < Len(text) /\ text[end + 1] # "{"

\* C23: a block-opening keyword that is not followed by `{` is a fatal
\* parse error: for `fn <name>`, `loop`, `if`, `else` and `while` (before
\* its condition block and before its body block), a following word other
\* than `{` aborts the parse, so that no function map is produced.  (Texts
\* with `let` are left out: the words of a let header are names.)
C23_MissingBraceIsFatal ==
    (phase \in {"parsed", "done"} /\ ~contains(source, "let"))
        => ~missing_brace(source)

\* the words the parser matches by themselves
keywords ==
    DOMAIN simple_words \cup {"fn", "{", "}", "loop", "if", "else", "while", "let"}

\* a word that is a number, a string literal, the name of a function
\* completely parsed or a let name in scope
known_word(token, known, names) ==
    \/ parse_usize(token) # None
    \/ token \in DOMAIN literals
    \/ token \in known
    \/ token \in names

\* the let names in scope in the innermost of the open blocks
scope_of(blocks) ==
    IF blocks = <<>> THEN {} ELSE blocks[Len(blocks)].names

\* Reads a text as the grammar describes it and tells whether a word in a
\* function body is an unknown token: neither a keyword or operator symbol,
\* nor a number, a string literal, the name of a function whose definition
\* was closed earlier in the text, or a let name of an enclosing let.  k is
\* the position read, known the functions closed so far, name the function
\* being defined, blocks the open blocks, innermost last, each with its kind
\* and the let names in scope in it.  The words of a let header are names,
\* not tokens of the body.
RECURSIVE unknown_token(_, _, _, _, _)
unknown_token(text, k, known, name, blocks) ==
    IF k > Len(text) THEN FALSE
    ELSE
        LET token == text[k]
            opens(at) == at <= Len(text) /\ text[at] = "{"
            stray(at) ==
                /\ at <= Len(text)
                /\ text[at] \notin keywords
                /\ ~known_word(text[at], known, scope_of(blocks))
            enter(kind, at, outer, more) ==
                unknown_token(text, at, known, name,
                              Append(outer, [kind |-> kind,
                                             names |-> scope_of(outer) \cup more]))
        IN  IF blocks = <<>>
            THEN /\ token = "fn"
                 /\ opens(k + 2)
                 /\ unknown_token(text, k + 3, known, text[k + 1],
                                  <<[kind |-> "fn", names |-> {}]>>)
            ELSE IF token \in DOMAIN simple_words
            THEN unknown_token(text, k + 1, known, name, blocks)
            ELSE IF token = "}"
            THEN LET closed == blocks[Len(blocks)]
                     outer == without(blocks, 1)
                 IN  IF closed.kind = "fn"
                     THEN unknown_token(text, k + 1, known \cup {name}, name, <<>>)
                     ELSE IF closed.kind = "if" /\ k < Len(text) /\ text[k + 1] = "else"
                     THEN IF opens(k + 2) THEN enter("else", k + 3, outer, {})
                          ELSE stray(k + 2)
                     ELSE IF closed.kind = "condition"
                     THEN IF opens(k + 1) THEN enter("while", k + 2, outer, {})
                          ELSE stray(k + 1)
                     ELSE unknown_token(text, k + 1, known, name, outer)
            ELSE IF token \in {"loop", "if"}
            THEN IF opens(k + 1) THEN enter(token, k + 2, blocks, {})
                 ELSE stray(k + 1)
            ELSE IF token = "while"
            THEN IF opens(k + 1) THEN enter("condition", k + 2, blocks, {})
                 ELSE stray(k + 1)
            ELSE IF token = "let"
            THEN LET header == let_names(SubSeq(text, k + 1, Len(text)), <<>>)
                 IN  /\ header.found
                     /\ enter("let", k + Len(header.let_bindings) + 2, blocks,
                              elements(header.let_bindings))
            ELSE ~known_word(token, known, scope_of(blocks))
                    \/ unknown_token(text, k + 1, known, name, blocks)

\* C24: inside a function body, a token that is not a keyword or operator
\* symbol, not a non-negative integer, not a quoted string, not the name of
\* a function whose definition was completely parsed earlier in the source
\* and not a let name in scope aborts the parse; a function's own name
\* inside its first definition and the name of a function defined later are
\* rejected.
C24_UnknownTokenIsFatal ==
    phase \in {"parsed", "done"} => ~unknown_token(source, 1, {}, "", <<>>)

bytes_at(mem, address, len) == SubSeq(mem.memory, address + 1, address + len)

\* what the run holds of the Memory before event i: live are the addresses
\* that a string literal or an alloc of an earlier event handed out and no
\* later free returned, stored the addresses an earlier string literal or
\* store wrote to, and sound tells that every free so far returned live
\* addresses only
RECURSIVE held(_)
held(i) ==
    IF i = 1 THEN [live |-> {}, stored |-> {}, sound |-> TRUE]
    ELSE LET j == i - 1
             h == held(j)
             event == run.log[j]
             returned == top(run.log[i])
         IN  IF event.ev # "exec" THEN h
             ELSE IF event.op = "PushBytes"
             THEN [h EXCEPT !.live = @ \cup range(returned, Len(event.node.data)),
                            !.stored = @ \cup range(returned, Len(event.node.data))]
             ELSE IF event.op = "Alloc"
             THEN [h EXCEPT !.live = @ \cup range(returned, top(event))]
             ELSE IF event.op = "StoreByte"
             THEN [h EXCEPT !.stored = @ \cup {nth(event.stack, 2)}]
             ELSE IF event.op = "Free"
             THEN LET freed == range(nth(event.stack, 2), top(event))
                  IN  [h EXCEPT !.live = @ \ freed,
                                !.sound = @ /\ freed \subseteq h.live]
             ELSE h

\* C27: a string-literal node pushes exactly one word, the address the
\* allocator returned, and afterwards the bytes of the Memory from that
\* address on are the bytes of the literal followed by one zero byte; two
\* string literals executed with no free between them occupy disjoint
\* ranges of addresses, and no byte that is live and was written before is
\* changed.  (For runs that free only addresses they hold.)
C27_StringLiteralIsStored ==
    /\ phase \in {"parsed", "done"} =>
          \A node \in program_nodes :
              (node.op = "Memory" /\ node.operand = "PushBytes") =>
                  \E word \in DOMAIN literals :
                      /\ contains(source, word)
                      /\ node.data = Append(literals[word], 0)
    /\ phase = "done" =>
          \A i \in executions({"PushBytes"}) :
              LET data == run.log[i].node.data
                  before == run.log[i]
                  after == state_after(i)
                  address == nth(after.stack, 1)
              IN  (completed(i) /\ held(i).sound) =>
                      /\ after.stack = Append(before.stack, address)
                      /\ bytes_at(after.memory, address, Len(data)) = data
                      /\ \A a \in held(i).live \cap held(i).stored :
                            after.memory.memory[a + 1] = before.memory.memory[a + 1]
                      /\ \A j \in executions({"PushBytes"}) :
                            (j < i /\ \A k \in executions({"Free"}) : ~(j < k /\ k < i))
                                => range(top(run.log[j + 1]),
                                         Len(run.log[j].node.data))
                                       \cap range(address, Len(data)) = {}

\* the events between i and j at which a node started that changes the
\* Memory
memory_changes(i, j) ==
    {k \in executions({"StoreByte", "PushBytes", "Free", "Alloc"}) : i < k /\ k < j}

\* C28: store then load round-trips modulo 2^8: for an address inside the
\* buffer, `->` on the stack [.., address, value] pops both words and changes
\* only the byte at the address, which becomes the value modulo 2^8; `<-`
\* pops an address and pushes the byte there; so that a following `<-` on the
\* same address pushes the value modulo 2^8; and the free list is unchanged
\* by both operations.
C28_StoreThenLoad ==
    phase = "done" =>
        /\ \A i \in executions({"StoreByte"}) :
              LET before == run.log[i]
                  after == state_after(i)
                  address == nth(before.stack, 2)
                  value == nth(before.stack, 1)
              IN  (Len(before.stack) >= 2 /\ address < Len(before.memory.memory)) =>
                      /\ i = Len(run.log) => run.panic = ""
                      /\ after.stack = without(before.stack, 2)
                      /\ after.memory.memory =
                             [before.memory.memory EXCEPT
                                 ![address + 1] = value % U8Modulus]
                      /\ after.memory.free = before.memory.free
                      /\ \A j \in executions({"LoadByte"}) :
                            (/\ j > i
                             /\ memory_changes(i, j) = {}
                             /\ run.log[j].stack # <<>>
                             /\ top(run.log[j]) = address
                             /\ completed(j)) =>
                                top(state_after(j)) = value % U8Modulus
        /\ \A j \in executions({"LoadByte"}) :
              LET before == run.log[j]
                  after == state_after(j)
                  address == nth(before.stack, 1)
              IN  (before.stack # <<>> /\ address < Len(before.memory.memory)) =>
                      /\ j = Len(run.log) => run.panic = ""
                      /\ after.stack = Append(without(before.stack, 1),
                                              before.memory.memory[address + 1])
                      /\ after.memory = before.memory

\* `1 alloc dup 6 -> <-` was run: 6 was stored at address 0 and the load
\* pushed 6 modulo 2^8 (a u8 of 2 bits: 2)
C28_Witness ==
    /\ phase = "done"
    /\ source = Main(<<"1", "alloc", "dup", "6", "->", "<-">>)
    /\ run.stack = <<6 % U8Modulus>>
    /\ run.memory.memory = <<2>>
    /\ run.panic = ""

\* the words a stack operation reads, and the stack it is to leave
reads(op) ==
    CASE op = "Dup" -> 1 [] op = "Swap" -> 2 [] op = "Over" -> 2
      [] op = "Rot" -> 3 [] op = "Drop" -> 1

shuffled(op, stack) ==
    LET a == nth(stack, 1)
        b == nth(stack, 2)
        c == nth(stack, 3)
    IN  CASE op = "Dup" -> stack \o <<a>>
          [] op = "Swap" -> without(stack, 2) \o <<a, b>>
          [] op = "Over" -> stack \o <<b>>
          [] op = "Rot" -> without(stack, 3) \o <<b, a, c>>
          [] op = "Drop" -> without(stack, 1)

\* C29: stack operations touch only the top of the stack: on [.., c, b, a]
\* (a on top) dup leaves [.., c, b, a, a], swap [.., c, a, b], over
\* [.., c, b, a, b], rot [.., b, a, c] and drop [.., c, b], the deeper words
\* unchanged; so that swap applied twice and rot applied three times restore
\* the stack.
C29_StackOperations ==
    phase = "done" =>
        \A i \in executions({"Dup", "Swap", "Over", "Rot", "Drop"}) :
            LET op == run.log[i].op
                before == run.log[i].stack
            IN  Len(before) >= reads(op) =>
                    /\ i = Len(run.log) => run.panic = ""
                    /\ stack_after(i) = shuffled(op, before)
                    /\ (/\ op = "Swap"
                        /\ i + 1 \in executions({"Swap"})) =>
                            stack_after(i + 1) = before
                    /\ (/\ op = "Rot"
                        /\ i + 1 \in executions({"Rot"})
                        /\ i + 2 \in executions({"Rot"})) =>
                            stack_after(i + 2) = before

\* `1 2 3 rot rot rot` was run: the first rot left [2, 3, 1] and the third
\* [1, 2, 3] again
C29_Witness ==
    /\ phase = "done"
    /\ source = Main(<<"1", "2", "3", "rot", "rot", "rot">>)
    /\ run.log[5].stack = <<2, 3, 1>>
    /\ run.stack = <<1, 2, 3>>

\* Reads a text as the grammar describes it, like unknown_token, and yields
\* the words that stand where a node of a function body is due, each with
\* the functions closed before it and the let names in scope at it
RECURSIVE body_words(_, _, _, _, _)
body_words(text, k, known, name, blocks) ==
    IF k > Len(text) THEN {}
    ELSE
        LET token == text[k]
            opens(at) == at <= Len(text) /\ text[at] = "{"
            enter(kind, at, outer, more) ==
                body_words(text, at, known, name,
                           Append(outer, [kind |-> kind,
                                          names |-> scope_of(outer) \cup more]))
            here == {[token |-> token, known |-> known, names |-> scope_of(blocks)]}
        IN  IF blocks = <<>>
            THEN IF token = "fn" /\ opens(k + 2)
                 THEN body_words(text, k + 3, known, text[k + 1],
                                 <<[kind |-> "fn", names |-> {}]>>)
                 ELSE {}
            ELSE IF token = "}"
            THEN LET closed == blocks[Len(blocks)]
                     outer == without(blocks, 1)
                 IN  IF closed.kind = "fn"
                     THEN body_words(text, k + 1, known \cup {name}, name, <<>>)
                     ELSE IF closed.kind = "if" /\ k < Len(text) /\ text[k + 1] = "else"
                     THEN IF opens(k + 2) THEN enter("else", k + 3, outer, {}) ELSE {}
                     ELSE IF closed.kind = "condition"
                     THEN IF opens(k + 1) THEN enter("while", k + 2, outer, {}) ELSE {}
                     ELSE body_words(text, k + 1, known, name, outer)
            ELSE IF token \in {"loop", "if"}
            THEN IF opens(k + 1) THEN here \cup enter(token, k + 2, blocks, {}) ELSE here
            ELSE IF token = "while"
            THEN IF opens(k + 1) THEN here \cup enter("condition", k + 2, blocks, {})
                 ELSE here
            ELSE IF token = "let"
            THEN LET header == let_names(SubSeq(text, k + 1, Len(text)), <<>>)
                 IN  IF header.found
                     THEN here \cup enter("let", k + Len(header.let_bindings) + 2,
                                          blocks, elements(header.let_bindings))
                     ELSE here
            ELSE here \cup body_words(text, k + 1, known, name, blocks)

\* the names that some word of a function body refers to as a let name by
\* the precedence of the grammar: a let name in scope that is no keyword or
\* operator symbol, no number, no string literal and no function closed
\* before the word
let_references(text) ==
    {w.token : w \in {v \in body_words(text, 1, {}, "", <<>>) :
                         /\ v.token \in v.names
                         /\ v.token \notin keywords
                         /\ v.token \notin DOMAIN numerals
                         /\ v.token \notin DOMAIN literals
                         /\ v.token \notin v.known}}

\* the node the grammar makes of a let name of the programs of let names
\* (`fn` and `else` have no node of their own in a function body)
expected(name) ==
    IF name \in DOMAIN simple_words THEN simple_words[name]
    ELSE IF name \in DOMAIN numerals THEN Token_Push(numerals[name])
    ELSE IF name \in DOMAIN literals
    THEN Token_PushBytes(Append(literals[name], 0))
    ELSE IF name = "f" THEN Token_FunctionCall(name)
    ELSE Token_Let(name)

\* C30: identifier resolution in a function body follows a fixed precedence,
\* keyword or operator symbol, then non-negative integer, then quoted
\* string, then previously parsed function name, then let name in scope: a
\* let-bound name that is also a keyword, an integer literal, a string or
\* the name of an earlier function never produces a LetRef inside its own
\* let body; the reference resolves to the keyword, the Push, the PushBytes
\* or the FunctionCall instead.
C30_ResolutionPrecedence ==
    /\ phase \in {"parsed", "done", "replayed"} =>
          \A node \in program_nodes :
              node.op = "Let" => node.let_binding \in let_references(source)
    /\ \A name \in LetNames \ {"fn", "else"} :
          (phase # "source" /\ source = Shadow(name)) =>
              /\ phase # "rejected"
              /\ program["main"] =
                     <<Token_Push(1), Token_LetBlock(<<expected(name)>>, <<name>>)>>

\* the functions that the nodes of function f call
called_by(f) ==
    {node.function : node \in {n \in all_nodes(program[f]) : n.op = "FunctionCall"}}

\* the functions reached from the callees by up to k further calls
RECURSIVE reached(_, _)
reached(callees, k) ==
    IF k = 0 THEN callees
    ELSE reached(callees \cup UNION {called_by(f) : f \in callees \cap DOMAIN program},
                 k - 1)

\* function f reaches itself through calls
calls_itself(f) == f \in reached(called_by(f), Cardinality(DOMAIN program))

\* the program has no LoopBlock and no WhileBlock
loop_free == \A node \in program_nodes : node.op \notin {"LoopBlock", "WhileBlock"}

\* the call at event i runs, before it returns, a call of the same function
\* on the same stack, memory and variables: what the run did between the two
\* it does again without end
recurs(i) ==
    \E j \in (i + 1)..Len(run.log) :
        /\ run.log[j].ev = "exec"
        /\ run.log[j].node = run.log[i].node
        /\ \A k \in (i + 1)..j : run.log[k].depth > run.log[i].depth
        /\ run.log[j].stack = run.log[i].stack
        /\ run.log[j].memory = run.log[i].memory
        /\ run.log[j].variables = run.log[i].variables
        /\ run.log[j].status = run.log[i].status

\* C31: every accepted program that contains no LoopBlock and no WhileBlock
\* terminates: a FunctionCall can only name a function parsed earlier, so no
\* function reaches itself through calls, also when a function name is
\* declared more than once, and no call of the run leads to itself.
C31_LoopFreeProgramsTerminate ==
    (phase \in {"parsed", "done", "replayed"} /\ loop_free) =>
        /\ \A f \in DOMAIN program : ~calls_itself(f)
        /\ phase = "done" =>
              \A i \in events("exec", "FunctionCall") : ~recurs(i)

\* the number of opening braces of a text
braces(text) == Cardinality({k \in 1..Len(text) : text[k] = "{"})

\* a text with n closing braces after it
closed(text, n) == text \o [k \in 1..n |-> "}"]

\* C32: when the token stream ends inside a block before its closing `}` (a
\* function body or a nested if, loop, while or let body), the block parser
\* raises no error: it returns the nodes accumulated so far as the body of
\* the block, every enclosing block ends the same way, and parse returns a
\* function map with the truncated function.  So a text that would be a
\* program with some closing braces after it is accepted as it is, and is
\* that same program.
C32_EndOfInputEndsTheBlocks ==
    phase \in {"parsed", "rejected"} =>
        \A n \in 1..braces(source) :
            LET whole == parse(closed(source, n))
            IN  ~whole.panic =>
                    /\ phase # "rejected"
                    /\ DOMAIN program # {}
                    /\ program = whole.functions

\* `fn main { 1 if { 2 loop { 3` was parsed: main is 1 and an if whose true
\* block is 2 and a loop of 3
C32_Witness ==
    /\ phase = "parsed"
    /\ source = <<"fn", "main", "{", "1", "if", "{", "2", "loop", "{", "3">>
    /\ ~parse(closed(source, 3)).panic
    /\ program["main"] =
           <<Token_Push(1),
             Token_IfBlock(<<Token_Push(2), Token_LoopBlock(<<Token_Push(3)>>)>>,
                           <<>>)>>

====
